---------------------------- MODULE Spec2Model ----------------------------
(***************************************************************************)
(* Model of the swizzle-editor configuration layer: the YAML transform     *)
(* (editorConfigToYAML / yamlToEditorConfig), the validator                *)
(* (validateEditorConfig), the canvas-resize renormalizer                  *)
(* (recentreEmittersOnResize) and the zustand editor store with the Header *)
(* and ExamplesGallery handlers that drive imports.                        *)
(* The sprite-sequence detector (detectSequence, autoDetectSequences,      *)
(* validateSequence) is modelled on file names held as character           *)
(* sequences.                                                              *)
(* The store's history (pushHistory, undo, redo), its emitter list edits   *)
(* (removeEmitter, duplicateEmitter, reorderEmitters, selectEmitter), the  *)
(* debounced rebuild effect of PreviewCanvas and the upload handler of the *)
(* asset library (handleFileSelect) each have a specification of their     *)
(* own.                                                                    *)
(*                                                                         *)
(* JavaScript values are modelled as uniform nodes                         *)
(*   [t, b, n, s, keys, vals]                                              *)
(* where t is the typeof-like tag ("undefined", "null", "boolean",         *)
(* "number", "string", "object", "array"), b/n/s hold the scalar, and      *)
(* keys/vals hold an object's own properties in insertion order (vals      *)
(* alone holds an array's elements).  Numbers are dyadic rationals with    *)
(* one fractional bit: the field n counts halves, so that w / 2 is exact   *)
(* for every integer canvas dimension w.                                   *)
(***************************************************************************)
EXTENDS Integers, Sequences, FiniteSets, TLC

\* ------------------------------------------------------------------------
\* JavaScript values
\* ------------------------------------------------------------------------

Node(t, b, n, s, keys, vals) ==
    [t |-> t, b |-> b, n |-> n, s |-> s, keys |-> keys, vals |-> vals]

Undef == Node("undefined", FALSE, 0, "", <<>>, <<>>)

Null == Node("null", FALSE, 0, "", <<>>, <<>>)

Bool(b) == Node("boolean", b, 0, "", <<>>, <<>>)

\* the number h / 2
Halves(h) == Node("number", FALSE, h, "", <<>>, <<>>)

\* the integer k
Num(k) == Halves(2 * k)

Str(s) == Node("string", FALSE, 0, s, <<>>, <<>>)

Obj(keys, vals) == Node("object", FALSE, 0, "", keys, vals)

Arr(vals) == Node("array", FALSE, 0, "", <<>>, vals)

\* typeof value === 'object' && value !== null   (arrays are objects)
isRecord(value) == value.t \in {"object", "array"}

IsNumber(v) == v.t = "number"

IsString(v) == v.t = "string"

\* Array.isArray(value)
IsArray(v) == v.t = "array"

\* JavaScript truthiness: undefined, null, false, 0 and "" are falsy
Truthy(v) ==
    CASE v.t = "undefined" -> FALSE
      [] v.t = "null" -> FALSE
      [] v.t = "boolean" -> v.b
      [] v.t = "number" -> v.n # 0 \/ v.vals # <<>>
      [] v.t = "string" -> v.s # ""
      [] OTHER -> TRUE

HasKey(o, k) == o.t = "object" /\ \E i \in 1..Len(o.keys) : o.keys[i] = k

\* o[k]: an own property of an object, undefined otherwise (also for
\* primitives, whose wrapper objects carry none of the keys used here)
Get(o, k) ==
    IF HasKey(o, k)
    THEN o.vals[CHOOSE i \in 1..Len(o.keys) : o.keys[i] = k]
    ELSE Undef

\* o[k] = v: overwrite in place, or append a new own property
Put(o, k, v) ==
    IF HasKey(o, k)
    THEN [o EXCEPT !.vals[CHOOSE i \in 1..Len(o.keys) : o.keys[i] = k] = v]
    ELSE [o EXCEPT !.keys = Append(o.keys, k), !.vals = Append(o.vals, v)]

\* Numbers that are no multiple of 1/2 keep their IEEE 754 double value as
\* a magnitude <<l0, l1, l2>> = l0 + l1 * 2^24 + l2 * 2^48 counted in units
\* of 2^-56, with the sign in b and the floor of twice the value in n.  All
\* magnitudes stay below 2^16, so that a sum of two of them is exact in
\* this form before it is rounded to the 53 bits of a double.
Limb == 2^24

\* one half, in units of 2^-56, is 2^7 * 2^48
HalfUnit == 2^7

Fixed(neg, mag) ==
    Node("number", neg,
         IF neg THEN -(mag[3] \div HalfUnit) - 1 ELSE mag[3] \div HalfUnit,
         "", <<>>, mag)

\* sign and magnitude of a number node
Signed(v) ==
    IF v.vals = <<>>
    THEN [neg |-> v.n < 0, mag |-> <<0, 0, HalfUnit * (IF v.n < 0 THEN -v.n ELSE v.n)>>]
    ELSE [neg |-> v.b, mag |-> v.vals]

\* the number node of a sign and magnitude
FromSigned(x) ==
    IF x.mag[1] = 0 /\ x.mag[2] = 0 /\ x.mag[3] % HalfUnit = 0
    THEN Halves(IF x.neg THEN -(x.mag[3] \div HalfUnit) ELSE x.mag[3] \div HalfUnit)
    ELSE Fixed(x.neg, x.mag)

MagAdd(a, b) ==
    LET s0 == a[1] + b[1]
        s1 == a[2] + b[2] + s0 \div Limb
        s2 == a[3] + b[3] + s1 \div Limb
    IN <<s0 % Limb, s1 % Limb, s2>>

\* a - b for a >= b
MagSub(a, b) ==
    LET d0 == a[1] - b[1]
        d1 == a[2] - b[2] - (IF d0 < 0 THEN 1 ELSE 0)
        d2 == a[3] - b[3] - (IF d1 < 0 THEN 1 ELSE 0)
    IN <<d0 % Limb, d1 % Limb, d2>>

MagLess(a, b) ==
    \/ a[3] < b[3]
    \/ a[3] = b[3] /\ a[2] < b[2]
    \/ a[3] = b[3] /\ a[2] = b[2] /\ a[1] < b[1]

\* number of bits of a limb
BitLength(x) == Cardinality({k \in 0..30 : 2^k <= x})

MagBits(a) ==
    IF a[3] > 0 THEN 48 + BitLength(a[3])
    ELSE IF a[2] > 0 THEN 24 + BitLength(a[2])
    ELSE BitLength(a[1])

\* the exact sum of two signed magnitudes
SignedAdd(x, y) ==
    IF x.neg = y.neg THEN [neg |-> x.neg, mag |-> MagAdd(x.mag, y.mag)]
    ELSE IF MagLess(x.mag, y.mag) THEN [neg |-> y.neg, mag |-> MagSub(y.mag, x.mag)]
    ELSE [neg |-> x.neg, mag |-> MagSub(x.mag, y.mag)]

\* round to nearest double, ties to even: keep the 53 leading bits
RoundToDouble(x) ==
    LET d == MagBits(x.mag) - 53
        unit == 2^d
        r == x.mag[1] % unit
        down == <<x.mag[1] - r, x.mag[2], x.mag[3]>>
        odd == (x.mag[1] \div unit) % 2 = 1
    IN IF d <= 0 THEN x
       ELSE IF 2 * r > unit \/ (2 * r = unit /\ odd)
            THEN [x EXCEPT !.mag = MagAdd(down, <<unit, 0, 0>>)]
            ELSE [x EXCEPT !.mag = down]

\* a + b on numbers
JsAdd(a, b) ==
    IF a.vals = <<>> /\ b.vals = <<>> THEN Halves(a.n + b.n)
    ELSE FromSigned(RoundToDouble(SignedAdd(Signed(a), Signed(b))))


\* ------------------------------------------------------------------------
\* The structured-text codec (js-yaml dump / load)
\*
\* A YAML text is modelled as its sequence of tokens: the collection
\* delimiters, the mapping keys and the scalars.  A scalar token carries its
\* lexeme and its style; a plain scalar is resolved by the core schema on
\* load (null, boolean, number, else string), a quoted scalar is a string.
\* ------------------------------------------------------------------------

\* largest magnitude (in halves) of a numeral the resolver table covers
MaxNumeral == 1300

\* upper limit of system.maxParticles accepted by the validator
MAX_PARTICLES_LIMIT == 10000

\* lower limit of system.maxParticles accepted by the validator
MIN_PARTICLES_LIMIT == 1

\* system.maxParticles substituted on import
DEFAULT_MAX_PARTICLES == 1000

NumeralRange ==
    (-MaxNumeral..MaxNumeral)
        \cup {2 * MAX_PARTICLES_LIMIT, 2 * (MAX_PARTICLES_LIMIT + 1)}

AbsLex(h) == ToString(h \div 2) \o (IF h % 2 = 1 THEN ".5" ELSE "")

\* the numeral js-yaml writes for the number h / 2
NumLex(h) == IF h < 0 THEN "-" \o AbsLex(-h) ELSE AbsLex(h)

NumLexOf == [h \in NumeralRange |-> NumLex(h)]

NumLexemes == {NumLexOf[h] : h \in NumeralRange}

\* the number (in halves) a numeral denotes
NumOfLex == [l \in NumLexemes |-> CHOOSE h \in NumeralRange : NumLexOf[h] = l]

NullLexemes == {"", "~", "null", "Null", "NULL"}

TrueLexemes == {"true", "True", "TRUE"}

FalseLexemes == {"false", "False", "FALSE"}

\* implicit tag resolution of a plain scalar (YAML core schema)
PlainResolve(s) ==
    CASE s \in NullLexemes -> Null
      [] s \in TrueLexemes -> Bool(TRUE)
      [] s \in FalseLexemes -> Bool(FALSE)
      [] s \in NumLexemes -> Halves(NumOfLex[s])
      [] OTHER -> Str(s)

Tok(k, s) == [k |-> k, s |-> s]

\* dump writes a string plain only when a plain scalar of that spelling
\* resolves back to a string; otherwise it quotes it
DumpString(s) ==
    IF PlainResolve(s).t = "string" THEN Tok("PLAIN", s) ELSE Tok("QUOTED", s)

RECURSIVE DumpVal(_)
RECURSIVE DumpPairs(_, _)
RECURSIVE DumpItems(_, _)

\* the pairs of a mapping from index i on; a pair whose value dump cannot
\* represent (undefined) is skipped
DumpPairs(o, i) ==
    IF i > Len(o.keys) THEN <<>>
    ELSE (IF o.vals[i].t = "undefined" THEN <<>>
          ELSE <<Tok("KEY", o.keys[i])>> \o DumpVal(o.vals[i]))
         \o DumpPairs(o, i + 1)

\* the items of a sequence from index i on; an undefined item is written null
DumpItems(a, i) ==
    IF i > Len(a.vals) THEN <<>>
    ELSE (IF a.vals[i].t = "undefined" THEN <<Tok("PLAIN", "null")>>
          ELSE DumpVal(a.vals[i]))
         \o DumpItems(a, i + 1)

DumpVal(v) ==
    CASE v.t = "null" -> <<Tok("PLAIN", "null")>>
      [] v.t = "boolean" -> <<Tok("PLAIN", IF v.b THEN "true" ELSE "false")>>
      [] v.t = "number" -> <<Tok("PLAIN", NumLex(v.n))>>
      [] v.t = "string" -> <<DumpString(v.s)>>
      [] v.t = "object" -> <<Tok("MAP{", "")>> \o DumpPairs(v, 1) \o <<Tok("}MAP", "")>>
      [] v.t = "array" -> <<Tok("SEQ[", "")>> \o DumpItems(v, 1) \o <<Tok("]SEQ", "")>>
      [] OTHER -> <<>>

\* dump(value, {indent: 2, lineWidth: -1, noRefs: true})
dump(value) == DumpVal(value)

ParseFail(msg, i) == [ok |-> FALSE, v |-> Undef, next |-> i, msg |-> msg]

ParseOk(v, i) == [ok |-> TRUE, v |-> v, next |-> i, msg |-> ""]

RECURSIVE ParseVal(_, _)
RECURSIVE ParseMap(_, _, _, _)
RECURSIVE ParseSeq(_, _, _)

ParseVal(toks, i) ==
    IF i > Len(toks) THEN ParseFail("unexpected end of the stream", i)
    ELSE CASE toks[i].k = "PLAIN" -> ParseOk(PlainResolve(toks[i].s), i + 1)
           [] toks[i].k = "QUOTED" -> ParseOk(Str(toks[i].s), i + 1)
           [] toks[i].k = "MAP{" -> ParseMap(toks, i + 1, <<>>, <<>>)
           [] toks[i].k = "SEQ[" -> ParseSeq(toks, i + 1, <<>>)
           [] OTHER -> ParseFail("bad indentation of a mapping entry", i)

ParseMap(toks, i, keys, vals) ==
    IF i > Len(toks) THEN ParseFail("unexpected end of the stream", i)
    ELSE CASE toks[i].k = "}MAP" -> ParseOk(Obj(keys, vals), i + 1)
           [] toks[i].k = "KEY" ->
                IF \E j \in 1..Len(keys) : keys[j] = toks[i].s
                THEN ParseFail("duplicated mapping key", i)
                ELSE LET r == ParseVal(toks, i + 1)
                     IN IF r.ok
                        THEN ParseMap(toks, r.next, Append(keys, toks[i].s),
                                      Append(vals, r.v))
                        ELSE r
           [] OTHER -> ParseFail("bad indentation of a mapping entry", i)

ParseSeq(toks, i, vals) ==
    IF i > Len(toks) THEN ParseFail("unexpected end of the stream", i)
    ELSE IF toks[i].k = "]SEQ" THEN ParseOk(Arr(vals), i + 1)
    ELSE LET r == ParseVal(toks, i)
         IN IF r.ok THEN ParseSeq(toks, r.next, Append(vals, r.v)) ELSE r

\* load(yaml): the value of the single document of the text, undefined for
\* an empty text; a text that is not one well-formed document is a
\* YAMLException carrying the parser's message
load(yaml) ==
    IF yaml = <<>> THEN ParseOk(Undef, 1)
    ELSE LET r == ParseVal(yaml, 1)
         IN IF r.ok /\ r.next # Len(yaml) + 1
            THEN ParseFail("end of the stream or a document separator is expected", r.next)
            ELSE r


\* ------------------------------------------------------------------------
\* Config transform (utils/configTransform)
\* ------------------------------------------------------------------------

\* isEmitterConfig without the final particle check
isEmitterConfig_SkipsParticle(value) ==
    IF ~isRecord(value) THEN FALSE
    ELSE IF ~IsString(Get(value, "type")) THEN FALSE
    ELSE LET rateRequired == Get(value, "type").s # "burst"
                             /\ Get(value, "type").s # "triggered"
         IN IF rateRequired /\ ~IsNumber(Get(value, "emissionRate")) THEN FALSE
            ELSE IF ~isRecord(Get(value, "position")) THEN FALSE
            ELSE IsNumber(Get(Get(value, "position"), "x"))
                 /\ IsNumber(Get(Get(value, "position"), "y"))

\* the minimal shape check applied to every parsed emitter entry
isEmitterConfig(value) ==
    IF ~isRecord(value) THEN FALSE
    ELSE IF ~IsString(Get(value, "type")) THEN FALSE
    ELSE LET rateRequired == Get(value, "type").s # "burst"
                             /\ Get(value, "type").s # "triggered"
         IN IF rateRequired /\ ~IsNumber(Get(value, "emissionRate")) THEN FALSE
            ELSE IF ~isRecord(Get(value, "position")) THEN FALSE
            ELSE IF ~IsNumber(Get(Get(value, "position"), "x"))
                    \/ ~IsNumber(Get(Get(value, "position"), "y")) THEN FALSE
            ELSE isRecord(Get(value, "particle"))
                 /\ IsString(Get(Get(value, "particle"), "type"))

\* {...o}: a fresh object with the own properties of o
Spread(o) == Obj(o.keys, o.vals)

\* toParsedYamlConfig losing the system block
toParsedYamlConfig_DropsSystem(value) ==
    IF ~isRecord(value) THEN Obj(<<>>, <<>>)
    ELSE Obj(<<"system", "emitters">>, <<Undef, Get(value, "emitters")>>)

toParsedYamlConfig(value) ==
    IF ~isRecord(value) THEN Obj(<<>>, <<>>)
    ELSE Obj(<<"system", "emitters">>,
             <<IF isRecord(Get(value, "system")) THEN Get(value, "system") ELSE Undef,
               Get(value, "emitters")>>)

MapSpread(items) == [i \in 1..Len(items) |-> Spread(items[i])]

\* editorConfigToYAML writing a system block without autoStart
editorConfigToYAML_DropsAutoStart(config) ==
    dump(Obj(<<"system", "emitters">>,
             <<Obj(<<"maxParticles">>, <<Get(Get(config, "system"), "maxParticles")>>),
               Arr(MapSpread(Get(config, "emitters").vals))>>))

\* EditorConfig -> YAML text
editorConfigToYAML(config) ==
    LET emitters == MapSpread(Get(config, "emitters").vals)
        yamlConfig ==
            Obj(<<"system", "emitters">>,
                <<Obj(<<"maxParticles", "autoStart">>,
                      <<Get(Get(config, "system"), "maxParticles"),
                        Get(Get(config, "system"), "autoStart")>>),
                  Arr(emitters)>>)
    IN dump(yamlConfig)

EditorConfig(maxParticles, autoStart, emitters) ==
    Obj(<<"system", "emitters">>,
        <<Obj(<<"maxParticles", "autoStart">>, <<maxParticles, autoStart>>),
          Arr(emitters)>>)

\* yamlToEditorConfig treating a text that does not parse as an empty document
yamlToEditorConfig_SwallowsParseError(yaml) ==
    LET r == load(yaml)
        parsed == IF r.ok THEN toParsedYamlConfig(r.v) ELSE Obj(<<>>, <<>>)
        emitters == IF IsArray(Get(parsed, "emitters"))
                    THEN SelectSeq(Get(parsed, "emitters").vals, isEmitterConfig)
                    ELSE <<>>
    IN [threw |-> FALSE, message |-> "",
        config |-> EditorConfig(Num(DEFAULT_MAX_PARTICLES), Bool(TRUE), emitters)]

\* YAML text -> EditorConfig, or the Error thrown for a text that does not parse
yamlToEditorConfig(yaml) ==
    LET r == load(yaml)
    IN IF ~r.ok
       THEN [threw |-> TRUE, message |-> "Failed to parse YAML: " \o r.msg,
             config |-> Undef]
       ELSE LET parsed == toParsedYamlConfig(r.v)
                emitters == IF IsArray(Get(parsed, "emitters"))
                            THEN SelectSeq(Get(parsed, "emitters").vals, isEmitterConfig)
                            ELSE <<>>
                maxParticles ==
                    IF IsNumber(Get(Get(parsed, "system"), "maxParticles"))
                    THEN Get(Get(parsed, "system"), "maxParticles")
                    ELSE Num(DEFAULT_MAX_PARTICLES)
                autoStart ==
                    IF Get(Get(parsed, "system"), "autoStart").t = "boolean"
                    THEN Get(Get(parsed, "system"), "autoStart")
                    ELSE Bool(TRUE)
            IN [threw |-> FALSE, message |-> "",
                config |-> EditorConfig(maxParticles, autoStart, emitters)]


\* ------------------------------------------------------------------------
\* Config validator
\* ------------------------------------------------------------------------

\* ToNumber as applied by the relational operators: NaN is [nan |-> TRUE]
\* (objects and arrays are never compared in the documents considered)
ToNumber(v) ==
    CASE v.t = "number" -> [nan |-> FALSE, n |-> v.n]
      [] v.t = "null" -> [nan |-> FALSE, n |-> 0]
      [] v.t = "boolean" -> [nan |-> FALSE, n |-> IF v.b THEN 2 ELSE 0]
      [] v.t = "string" /\ v.s = "" -> [nan |-> FALSE, n |-> 0]
      [] v.t = "string" /\ v.s \in NumLexemes ->
            [nan |-> FALSE, n |-> NumOfLex[v.s]]
      [] OTHER -> [nan |-> TRUE, n |-> 0]

\* v < k for an integer literal k
JsLess(v, k) == ~ToNumber(v).nan /\ ToNumber(v).n < 2 * k

\* v > k for an integer literal k
JsGreater(v, k) ==
    /\ ~ToNumber(v).nan
    /\ \/ ToNumber(v).n > 2 * k
       \/ ToNumber(v).n = 2 * k /\ v.t = "number" /\ v.vals # <<>>

\* reading a property of null or undefined raises a TypeError
Nullish(v) == v.t \in {"null", "undefined"}

EmitterLabel(index) == "Emitter " \o ToString(index) \o ": "

\* the errors pushed by the forEach callback for one emitter (index 0-based)
EmitterErrors(emitter, index) ==
    LET type == Get(emitter, "type")
        position == Get(emitter, "position")
        rateRequired == ~(IsString(type) /\ type.s = "burst")
                        /\ ~(IsString(type) /\ type.s = "triggered")
        emissionRate == Get(emitter, "emissionRate")
        burstCount == Get(emitter, "burstCount")
        particle == Get(emitter, "particle")
    IN (IF ~Truthy(type)
        THEN <<EmitterLabel(index) \o "Missing type">> ELSE <<>>)
       \o (IF ~Truthy(position) \/ ~IsNumber(Get(position, "x"))
              \/ ~IsNumber(Get(position, "y"))
           THEN <<EmitterLabel(index) \o "Invalid position">> ELSE <<>>)
       \o (IF rateRequired /\ (~IsNumber(emissionRate) \/ JsLess(emissionRate, 0))
           THEN <<EmitterLabel(index) \o "Invalid emissionRate">> ELSE <<>>)
       \o (IF IsString(type) /\ type.s = "burst"
              /\ (~IsNumber(burstCount) \/ JsLess(burstCount, 1))
           THEN <<EmitterLabel(index) \o "burstCount must be a number >= 1">>
           ELSE <<>>)
       \o (IF ~Truthy(particle)
           THEN <<EmitterLabel(index) \o "Missing particle configuration">>
           ELSE (IF ~Truthy(Get(particle, "type"))
                 THEN <<EmitterLabel(index) \o "Missing particle type">> ELSE <<>>)
                \o (IF ~Truthy(Get(particle, "lifetime"))
                    THEN <<EmitterLabel(index) \o "Missing particle lifetime">>
                    ELSE <<>>))

RECURSIVE ForEachEmitterErrors(_, _)
\* config.emitters.forEach(...) from the 1-based position i on
ForEachEmitterErrors(items, i) ==
    IF i > Len(items) THEN <<>>
    ELSE EmitterErrors(items[i], i - 1) \o ForEachEmitterErrors(items, i + 1)

ValidationThrew == [threw |-> TRUE, valid |-> FALSE, errors |-> <<>>]

validateEditorConfig(config) ==
    IF Nullish(config) THEN ValidationThrew
    ELSE LET system == Get(config, "system")
             emitters == Get(config, "emitters")
             systemErrors ==
                 IF ~Truthy(system) THEN <<"Missing system configuration">>
                 ELSE IF JsLess(Get(system, "maxParticles"), MIN_PARTICLES_LIMIT)
                         \/ JsGreater(Get(system, "maxParticles"), MAX_PARTICLES_LIMIT)
                      THEN <<"maxParticles must be between 1 and 10000">>
                      ELSE <<>>
         IN IF ~Truthy(emitters) \/ ~IsArray(emitters)
            THEN [threw |-> FALSE, valid |-> FALSE,
                  errors |-> systemErrors \o <<"Emitters must be an array">>]
            ELSE IF \E i \in 1..Len(emitters.vals) : Nullish(emitters.vals[i])
            THEN ValidationThrew
            ELSE LET errors == systemErrors \o ForEachEmitterErrors(emitters.vals, 1)
                 IN [threw |-> FALSE, valid |-> (Len(errors) = 0), errors |-> errors]


\* ------------------------------------------------------------------------
\* Canvas-resize centering
\* ------------------------------------------------------------------------

\* a - b on numbers
JsSub(a, b) == Halves(a.n - b.n)

\* a / 2 for an integer a (exact: a.n is even)
JsHalf(a) == Halves(a.n \div 2)

\* a table that lists path only for path emitters
ABSOLUTE_COORD_TYPES_NoPoints(type) ==
    CASE IsString(type) /\ type.s = "line" -> <<"start", "end">>
      [] IsString(type) /\ type.s = "path" -> <<"path">>
      [] OTHER -> <<>>

\* emitter type -> the fields holding absolute canvas coordinates
ABSOLUTE_COORD_TYPES(type) ==
    CASE IsString(type) /\ type.s = "line" -> <<"start", "end">>
      [] IsString(type) /\ type.s = "path" -> <<"path", "points">>
      [] OTHER -> <<>>

shiftPoint(p, dx, dy) ==
    Obj(<<"x", "y">>, <<JsAdd(Get(p, "x"), dx), JsAdd(Get(p, "y"), dy)>>)

ShiftAll(points, dx, dy) ==
    [i \in 1..Len(points) |-> shiftPoint(points[i], dx, dy)]

RECURSIVE ShiftFields(_, _, _, _, _, _)
\* the loop over the absolute-coordinate fields of one emitter
ShiftFields(updated, emitter, fields, i, dx, dy) ==
    IF i > Len(fields) THEN updated
    ELSE LET field == fields[i]
             value == Get(emitter, field)
             next ==
                 IF IsArray(value)
                 THEN Put(updated, field, Arr(ShiftAll(value.vals, dx, dy)))
                 ELSE IF Truthy(value) /\ value.t = "object"
                         /\ HasKey(value, "x") /\ HasKey(value, "y")
                      THEN Put(updated, field, shiftPoint(value, dx, dy))
                      ELSE updated
         IN ShiftFields(next, emitter, fields, i + 1, dx, dy)

\* a callback that shifts the absolute-coordinate fields of every type
RecentreEmitter_IgnoresType(emitter, dx, dy) ==
    LET updated == Put(Spread(emitter), "position",
                       shiftPoint(Get(emitter, "position"), dx, dy))
    IN ShiftFields(updated, emitter, <<"start", "end", "path", "points">>,
                   1, dx, dy)

\* the map callback: a shifted copy of one emitter
RecentreEmitter(emitter, dx, dy) ==
    LET updated == Put(Spread(emitter), "position",
                       shiftPoint(Get(emitter, "position"), dx, dy))
    IN ShiftFields(updated, emitter, ABSOLUTE_COORD_TYPES(Get(emitter, "type")),
                   1, dx, dy)

\* recentreEmittersOnResize without the two early returns
recentreEmittersOnResize_AlwaysCopies(emitters, oldWidth, oldHeight, newWidth, newHeight) ==
    LET dx == JsSub(JsHalf(Num(newWidth)), JsHalf(Num(oldWidth)))
        dy == JsSub(JsHalf(Num(newHeight)), JsHalf(Num(oldHeight)))
    IN [same |-> FALSE,
        emitters |-> [i \in 1..Len(emitters) |->
                         RecentreEmitter(emitters[i], dx, dy)]]

\* The result records whether the returned array is the argument itself
\* (same) or a newly allocated array.
recentreEmittersOnResize(emitters, oldWidth, oldHeight, newWidth, newHeight) ==
    LET dx == JsSub(JsHalf(Num(newWidth)), JsHalf(Num(oldWidth)))
        dy == JsSub(JsHalf(Num(newHeight)), JsHalf(Num(oldHeight)))
    IN IF dx.n = 0 /\ dy.n = 0 THEN [same |-> TRUE, emitters |-> emitters]
       ELSE IF Len(emitters) = 0 THEN [same |-> TRUE, emitters |-> emitters]
       ELSE [same |-> FALSE,
             emitters |-> [i \in 1..Len(emitters) |->
                              RecentreEmitter(emitters[i], dx, dy)]]


\* ------------------------------------------------------------------------
\* The editor store (store/editorStore) and the handlers that import
\* ------------------------------------------------------------------------

\* the zustand state object, the toast shown by the last step (none if it
\* showed none), and the record of the last step (which functions it
\* called, in order)
VARIABLES store, toast, handler

\* selectedEmitterIndex / selectedBehaviorIndex value null
NULL == -1

\* number of distinct object identities told apart for state.config
NumRefs == 2

\* the identity of an object allocated while ref is still referenced
Fresh(ref) == (ref + 1) % NumRefs

\* width of the authoring canvas
DEFAULT_CANVAS_WIDTH == 800

\* height of the authoring canvas
DEFAULT_CANVAS_HEIGHT == 600

createDefaultConfig == EditorConfig(Num(DEFAULT_MAX_PARTICLES), Bool(TRUE), <<>>)

createDefaultUIState ==
    [selectedEmitterIndex |-> NULL,
     selectedBehaviorIndex |-> NULL,
     previewState |-> "stopped",
     hasUnsavedChanges |-> FALSE,
     hiddenEmitterIndices |-> {},
     canvasWidth |-> DEFAULT_CANVAS_WIDTH,
     canvasHeight |-> DEFAULT_CANVAS_HEIGHT]

createDefaultAssetState == [textures |-> {}, sequences |-> {}]

\* the state created by create<EditorState>(...)
useEditorStore ==
    [config |-> createDefaultConfig,
     configRef |-> 0,
     assets |-> createDefaultAssetState,
     ui |-> createDefaultUIState,
     history |-> <<>>,
     historyIndex |-> -1]

Emitters(st) == Get(st.config, "emitters").vals

resetToDefault(st) ==
    [st EXCEPT !.config = createDefaultConfig,
               !.configRef = Fresh(st.configRef),
               !.assets = createDefaultAssetState,
               !.ui = createDefaultUIState,
               !.history = <<>>,
               !.historyIndex = -1]

addEmitter(st, emitter) ==
    [st EXCEPT !.config = Put(Spread(st.config), "emitters",
                              Arr(Append(Emitters(st), emitter))),
               !.configRef = Fresh(st.configRef),
               !.ui = [st.ui EXCEPT !.selectedEmitterIndex = Len(Emitters(st)),
                                    !.hasUnsavedChanges = TRUE]]

RECURSIVE Assign(_, _, _)
\* { ...o, ...updates }, from the i-th own property of updates on
Assign(o, updates, i) ==
    IF i > Len(updates.keys) THEN o
    ELSE Assign(Put(o, updates.keys[i], updates.vals[i]), updates, i + 1)

\* index is 0-based
updateEmitter(st, index, updates) ==
    IF index < 0 \/ index >= Len(Emitters(st)) THEN st
    ELSE [st EXCEPT
             !.config = Put(Spread(st.config), "emitters",
                            Arr([Emitters(st) EXCEPT
                                     ![index + 1] = Assign(Spread(@), updates, 1)])),
             !.configRef = Fresh(st.configRef),
             !.ui = [st.ui EXCEPT !.hasUnsavedChanges = TRUE]]

\* the synchronous part of addTexture, after the asset was persisted
addTexture(st, id) ==
    [st EXCEPT !.assets = [st.assets EXCEPT !.textures = @ \cup {id}],
               !.ui = [st.ui EXCEPT !.hasUnsavedChanges = TRUE]]

setPreviewState(st, previewState) ==
    [st EXCEPT !.ui = [st.ui EXCEPT !.previewState = previewState]]

markSaved(st) ==
    [st EXCEPT !.ui = [st.ui EXCEPT !.hasUnsavedChanges = FALSE]]

\* setCanvasDimensions measuring the shift from the authoring canvas
setCanvasDimensions_FromAuthoringSize(st, canvasWidth, canvasHeight) ==
    LET r == recentreEmittersOnResize(Emitters(st), DEFAULT_CANVAS_WIDTH,
                                      DEFAULT_CANVAS_HEIGHT, canvasWidth, canvasHeight)
    IN [st EXCEPT !.config = IF ~r.same
                             THEN Put(Spread(st.config), "emitters", Arr(r.emitters))
                             ELSE st.config,
                  !.configRef = IF ~r.same THEN Fresh(st.configRef) ELSE st.configRef,
                  !.ui = [st.ui EXCEPT !.canvasWidth = canvasWidth,
                                       !.canvasHeight = canvasHeight]]

setCanvasDimensions(st, canvasWidth, canvasHeight) ==
    LET oldW == st.ui.canvasWidth
        oldH == st.ui.canvasHeight
        r == recentreEmittersOnResize(Emitters(st), oldW, oldH,
                                      canvasWidth, canvasHeight)
    IN [st EXCEPT !.config = IF ~r.same
                             THEN Put(Spread(st.config), "emitters", Arr(r.emitters))
                             ELSE st.config,
                  !.configRef = IF ~r.same THEN Fresh(st.configRef) ELSE st.configRef,
                  !.ui = [st.ui EXCEPT !.canvasWidth = canvasWidth,
                                       !.canvasHeight = canvasHeight]]

toggleEmitterVisibility(st, index) ==
    [st EXCEPT !.ui = [st.ui EXCEPT
                          !.hiddenEmitterIndices =
                              IF index \in @ THEN @ \ {index} ELSE @ \cup {index}]]

\* longest history pushHistory leaves
MAX_HISTORY == 100

\* structuredClone(state.config) with the selection, label and no timestamp
createSnapshot(st) ==
    [config |-> st.config,
     selection |-> [selectedEmitterIndex |-> st.ui.selectedEmitterIndex,
                    selectedBehaviorIndex |-> st.ui.selectedBehaviorIndex],
     label |-> ""]

\* history.slice(0, end), end >= 0
Slice(history, end) == SubSeq(history, 1, IF end < Len(history) THEN end ELSE Len(history))

\* pushHistory keeping the entries beyond the current index
pushHistory_KeepsRedo(st, label) ==
    LET entry == [createSnapshot(st) EXCEPT !.label = label]
        pushed == Append(st.history, entry)
        history == IF Len(pushed) > MAX_HISTORY THEN Tail(pushed) ELSE pushed
    IN [st EXCEPT !.history = history, !.historyIndex = st.historyIndex + 1]

pushHistory(st, label) ==
    LET entry == [createSnapshot(st) EXCEPT !.label = label]
        pushed == Append(Slice(st.history, st.historyIndex + 1), entry)
        history == IF Len(pushed) > MAX_HISTORY THEN Tail(pushed) ELSE pushed
    IN [st EXCEPT !.history = history, !.historyIndex = Len(history) - 1]

\* the state set from a history entry, with the new history index
Restore(st, entry, historyIndex) ==
    [st EXCEPT !.config = entry.config,
               !.configRef = Fresh(st.configRef),
               !.ui = [st.ui EXCEPT
                          !.selectedEmitterIndex = entry.selection.selectedEmitterIndex,
                          !.selectedBehaviorIndex = entry.selection.selectedBehaviorIndex,
                          !.hasUnsavedChanges = TRUE],
               !.historyIndex = historyIndex]

\* undo restoring the entry below the current one
undo_SkipsEntry(st) ==
    IF st.historyIndex < 0 THEN st
    ELSE LET atTip == [st EXCEPT !.history =
                          IF st.historyIndex = Len(st.history) - 1
                          THEN Append(st.history,
                                      [createSnapshot(st) EXCEPT !.label = "current"])
                          ELSE st.history]
             at == IF st.historyIndex > 0 THEN st.historyIndex ELSE 1
         IN Restore(atTip, atTip.history[at], st.historyIndex - 1)

\* history[i] is the (i + 1)-th entry of the sequence
undo(st) ==
    IF st.historyIndex < 0 THEN st
    ELSE LET atTip == [st EXCEPT !.history =
                          IF st.historyIndex = Len(st.history) - 1
                          THEN Append(st.history,
                                      [createSnapshot(st) EXCEPT !.label = "current"])
                          ELSE st.history]
         IN Restore(atTip, atTip.history[st.historyIndex + 1], st.historyIndex - 1)

redo(st) ==
    LET nextIndex == st.historyIndex + 2
    IN IF nextIndex >= Len(st.history) THEN st
       ELSE Restore(st, st.history[nextIndex + 1], nextIndex - 1)

canUndo(st) == st.historyIndex >= 0

canRedo(st) == st.historyIndex + 2 < Len(st.history)

\* emitters.filter((_emitter, i) => i !== index), index 0-based
FilterOut(emitters, index) ==
    [i \in 1..(Len(emitters) - (IF index >= 0 /\ index < Len(emitters) THEN 1 ELSE 0))
        |-> IF i <= index THEN emitters[i] ELSE emitters[i + 1]]

Min(a, b) == IF a < b THEN a ELSE b

\* removeEmitter leaving the selection where it was
removeEmitter_KeepsSelection(st, index) ==
    LET emitters == FilterOut(Emitters(st), index)
        newHiddenIndices == {IF oldIndex > index THEN oldIndex - 1 ELSE oldIndex :
                                oldIndex \in st.ui.hiddenEmitterIndices \ {index}}
    IN [st EXCEPT !.config = Put(Spread(st.config), "emitters", Arr(emitters)),
                  !.configRef = Fresh(st.configRef),
                  !.ui = [st.ui EXCEPT !.hiddenEmitterIndices = newHiddenIndices,
                                       !.hasUnsavedChanges = TRUE]]

removeEmitter(st, index) ==
    LET emitters == FilterOut(Emitters(st), index)
        selectedIndex == st.ui.selectedEmitterIndex
        newSelectedIndex ==
            IF selectedIndex = index
            THEN IF Len(emitters) > 0 THEN Min(index, Len(emitters) - 1) ELSE NULL
            ELSE IF selectedIndex # NULL /\ selectedIndex > index
                 THEN selectedIndex - 1
                 ELSE selectedIndex
        newHiddenIndices == {IF oldIndex > index THEN oldIndex - 1 ELSE oldIndex :
                                oldIndex \in st.ui.hiddenEmitterIndices \ {index}}
    IN [st EXCEPT !.config = Put(Spread(st.config), "emitters", Arr(emitters)),
                  !.configRef = Fresh(st.configRef),
                  !.ui = [st.ui EXCEPT !.selectedEmitterIndex = newSelectedIndex,
                                       !.hiddenEmitterIndices = newHiddenIndices,
                                       !.hasUnsavedChanges = TRUE]]

\* emitters.splice(at, 0, item), at 0-based and at most emitters.length
InsertAt(emitters, at, item) ==
    [i \in 1..(Len(emitters) + 1) |->
        IF i <= at THEN emitters[i]
        ELSE IF i = at + 1 THEN item
        ELSE emitters[i - 1]]

duplicateEmitter(st, index) ==
    IF index < 0 \/ index >= Len(Emitters(st)) THEN st
    ELSE LET duplicate == Emitters(st)[index + 1]
             emitters == InsertAt(Emitters(st), index + 1, duplicate)
         IN [st EXCEPT !.config = Put(Spread(st.config), "emitters", Arr(emitters)),
                       !.configRef = Fresh(st.configRef),
                       !.ui = [st.ui EXCEPT !.selectedEmitterIndex = index + 1,
                                            !.hasUnsavedChanges = TRUE]]

\* where reorderEmitters moves the hidden index oldIndex
MovedIndex(oldIndex, startIndex, endIndex) ==
    IF oldIndex = startIndex THEN endIndex
    ELSE IF startIndex < endIndex /\ oldIndex > startIndex /\ oldIndex <= endIndex
         THEN oldIndex - 1
    ELSE IF startIndex > endIndex /\ oldIndex >= endIndex /\ oldIndex < startIndex
         THEN oldIndex + 1
    ELSE oldIndex

\* reorderEmitters leaving the hidden indices where they were
reorderEmitters_KeepsHidden(st, startIndex, endIndex) ==
    LET removed == Emitters(st)[startIndex + 1]
        emitters == InsertAt(FilterOut(Emitters(st), startIndex), endIndex, removed)
    IN [st EXCEPT !.config = Put(Spread(st.config), "emitters", Arr(emitters)),
                  !.configRef = Fresh(st.configRef),
                  !.ui = [st.ui EXCEPT !.selectedEmitterIndex = endIndex,
                                       !.hasUnsavedChanges = TRUE]]

\* startIndex and endIndex in range
reorderEmitters(st, startIndex, endIndex) ==
    LET removed == Emitters(st)[startIndex + 1]
        emitters == InsertAt(FilterOut(Emitters(st), startIndex), endIndex, removed)
        newHiddenIndices == {MovedIndex(oldIndex, startIndex, endIndex) :
                                oldIndex \in st.ui.hiddenEmitterIndices}
    IN [st EXCEPT !.config = Put(Spread(st.config), "emitters", Arr(emitters)),
                  !.configRef = Fresh(st.configRef),
                  !.ui = [st.ui EXCEPT !.selectedEmitterIndex = endIndex,
                                       !.hiddenEmitterIndices = newHiddenIndices,
                                       !.hasUnsavedChanges = TRUE]]

selectEmitter(st, index) ==
    [st EXCEPT !.ui = [st.ui EXCEPT !.selectedEmitterIndex = index,
                                    !.selectedBehaviorIndex = NULL]]

\* loadConfig storing the emitters as authored
loadConfig_KeepsEmitters(st, cfg, newAssets) ==
    LET canvasWidth == st.ui.canvasWidth
        canvasHeight == st.ui.canvasHeight
        defaults == createDefaultUIState
    IN [st EXCEPT !.config = Spread(cfg),
                  !.configRef = Fresh(st.configRef),
                  !.assets = newAssets,
                  !.ui = [defaults EXCEPT
                             !.canvasWidth = canvasWidth,
                             !.canvasHeight = canvasHeight,
                             !.selectedEmitterIndex =
                                 IF Len(Get(cfg, "emitters").vals) > 0 THEN 0 ELSE NULL]]

loadConfig(st, cfg, newAssets) ==
    LET canvasWidth == st.ui.canvasWidth
        canvasHeight == st.ui.canvasHeight
        defaults == createDefaultUIState
        r == recentreEmittersOnResize(Get(cfg, "emitters").vals,
                                      defaults.canvasWidth, defaults.canvasHeight,
                                      canvasWidth, canvasHeight)
    IN [st EXCEPT !.config = Put(Spread(cfg), "emitters", Arr(r.emitters)),
                  !.configRef = Fresh(st.configRef),
                  !.assets = newAssets,
                  !.ui = [defaults EXCEPT
                             !.canvasWidth = canvasWidth,
                             !.canvasHeight = canvasHeight,
                             !.selectedEmitterIndex =
                                 IF Len(Get(cfg, "emitters").vals) > 0 THEN 0 ELSE NULL]]

NoToast == [kind |-> "none", title |-> "", description |-> ""]

\* a step: its name, the functions it called in order, and its integer
\* arguments
Ran(name, calls) == [name |-> name, calls |-> calls, args |-> <<>>]


\* ------------------------------------------------------------------------
\* Documents and texts the operations are exercised on
\* ------------------------------------------------------------------------

\* longest emitter list in an enumerated document
MaxEmitters == 2

\* the point (hx / 2, hy / 2)
Pt(hx, hy) == Obj(<<"x", "y">>, <<Halves(hx), Halves(hy)>>)

Particle(type, lifetime) == Obj(<<"type", "lifetime">>, <<type, lifetime>>)

Sprite == Particle(Str("sprite"), Num(2))

PointEmitter(pos) ==
    Obj(<<"type", "position", "emissionRate", "particle">>,
        <<Str("point"), pos, Num(50), Sprite>>)

BurstEmitter(pos, burstCount) ==
    Obj(<<"type", "position", "burstCount", "particle">>,
        <<Str("burst"), pos, burstCount, Sprite>>)

TriggeredEmitter(pos) ==
    Obj(<<"type", "position", "particle">>, <<Str("triggered"), pos, Sprite>>)

\* o without its property k
Without(o, k) ==
    LET keep == SelectSeq([i \in 1..Len(o.keys) |-> i], LAMBDA i : o.keys[i] # k)
    IN Obj([j \in 1..Len(keep) |-> o.keys[keep[j]]],
           [j \in 1..Len(keep) |-> o.vals[keep[j]]])

SeqsUpTo(S, n) == UNION {[1..m -> S] : m \in 0..n}

\* a document with the given top-level values; an undefined value stands
\* for an absent key
RawDoc(system, emitters) ==
    Obj((IF system.t = "undefined" THEN <<>> ELSE <<"system">>)
            \o (IF emitters.t = "undefined" THEN <<>> ELSE <<"emitters">>),
        (IF system.t = "undefined" THEN <<>> ELSE <<system>>)
            \o (IF emitters.t = "undefined" THEN <<>> ELSE <<emitters>>))

System(maxParticles, autoStart) ==
    Obj(<<"maxParticles", "autoStart">>, <<maxParticles, autoStart>>)


\* ------------------------------------------------------------------------
\* Import / export / re-import of a text
\* ------------------------------------------------------------------------

\* the stage reached, the text given, and the results of yamlToEditorConfig,
\* editorConfigToYAML of that result, and yamlToEditorConfig of that text
VARIABLE xf

\* entries of a parsed emitters array: well-formed emitters of several
\* types, emitters failing each part of the shape check, and non-records
TransformEntries ==
    {Put(PointEmitter(Pt(200, 101)), "name", Str("12")),
     BurstEmitter(Pt(800, 600), Num(10)),
     Put(TriggeredEmitter(Pt(0, -40)), "particle", Particle(Str("true"), Null)),
     Put(Put(Put(PointEmitter(Pt(800, 600)), "type", Str("line")),
             "start", Pt(600, 600)), "end", Pt(1000, 600)),
     Put(PointEmitter(Pt(10, 10)), "type", Str("")),
     Without(PointEmitter(Pt(10, 10)), "particle"),
     Without(PointEmitter(Pt(10, 10)), "emissionRate"),
     Put(PointEmitter(Pt(10, 10)), "emissionRate", Str("50")),
     Put(PointEmitter(Pt(10, 10)), "type", Num(12)),
     Put(PointEmitter(Pt(10, 10)), "position", Obj(<<"x">>, <<Num(5)>>)),
     Put(PointEmitter(Pt(10, 10)), "particle", Obj(<<"lifetime">>, <<Num(2)>>)),
     Null,
     Str("abc")}

TransformSystems ==
    {Undef,
     Num(5),
     System(Num(150), Bool(FALSE)),
     System(Num(0), Bool(TRUE)),
     System(Num(MAX_PARTICLES_LIMIT + 1), Str("no")),
     System(Str("1500"), Undef)}

TransformEmitterValues ==
    {Undef, Str("none"), PointEmitter(Pt(10, 10))}
        \cup {Arr(l) : l \in SeqsUpTo(TransformEntries, MaxEmitters)}

TransformDocs ==
    {RawDoc(sys, ems) : sys \in TransformSystems, ems \in TransformEmitterValues}
        \cup {Str("hello"), Arr(<<>>)}

\* texts that are not one well-formed document
BrokenTexts ==
    {<<Tok("MAP{", ""), Tok("KEY", "system")>>,
     <<Tok("MAP{", ""), Tok("KEY", "emitters"), Tok("SEQ[", ""), Tok("}MAP", "")>>,
     <<Tok("MAP{", ""), Tok("KEY", "system"), Tok("PLAIN", "1"),
       Tok("KEY", "system"), Tok("PLAIN", "2"), Tok("}MAP", "")>>,
     <<Tok("PLAIN", "a"), Tok("]SEQ", "")>>}

Texts == {dump(d) : d \in TransformDocs} \cup BrokenTexts \cup {<<>>}

NoResult == [threw |-> FALSE, message |-> "", config |-> Undef]

XfInit ==
    xf \in {[stage |-> "text", text |-> t, imported |-> NoResult,
             exported |-> <<>>, reimported |-> NoResult] : t \in Texts}

XfImport ==
    /\ xf.stage = "text"
    /\ xf' = [xf EXCEPT !.stage = "imported",
                        !.imported = yamlToEditorConfig(xf.text)]

XfExport ==
    /\ xf.stage = "imported"
    /\ ~xf.imported.threw
    /\ xf' = [xf EXCEPT !.stage = "exported",
                        !.exported = editorConfigToYAML(xf.imported.config)]

XfReimport ==
    /\ xf.stage = "exported"
    /\ xf' = [xf EXCEPT !.stage = "reimported",
                        !.reimported = yamlToEditorConfig(xf.exported)]

XfIdle == [stage |-> "idle", text |-> <<>>, imported |-> NoResult,
           exported |-> <<>>, reimported |-> NoResult]


\* ------------------------------------------------------------------------
\* Validation of a document
\* ------------------------------------------------------------------------

\* the stage reached, the document given and the validator's outcome
VARIABLE vd

\* emitter entries: valid ones of the three rate classes, one violating
\* each rule, one violating several, and entries that are not objects
ValidatorEntries ==
    {PointEmitter(Pt(200, 101)),
     BurstEmitter(Pt(800, 600), Num(10)),
     TriggeredEmitter(Pt(800, 600)),
     BurstEmitter(Pt(800, 600), Undef),
     BurstEmitter(Pt(800, 600), Num(0)),
     Put(BurstEmitter(Pt(800, 600), Num(1)), "emissionRate", Num(-3)),
     Put(TriggeredEmitter(Pt(800, 600)), "emissionRate", Str("fast")),
     Without(PointEmitter(Pt(10, 10)), "type"),
     Without(PointEmitter(Pt(10, 10)), "emissionRate"),
     Put(PointEmitter(Pt(10, 10)), "emissionRate", Num(-1)),
     Put(PointEmitter(Pt(10, 10)), "emissionRate", Num(0)),
     Without(PointEmitter(Pt(10, 10)), "particle"),
     Put(PointEmitter(Pt(10, 10)), "particle", Particle(Str("sprite"), Num(0))),
     Put(PointEmitter(Pt(10, 10)), "particle", Particle(Str(""), Undef)),
     Put(PointEmitter(Pt(10, 10)), "position", Str("centre")),
     Obj(<<"position">>, <<Obj(<<"x">>, <<Num(1)>>)>>),
     Str("abc"),
     Null}

ValidatorSystems ==
    {Undef,
     System(Num(1000), Bool(TRUE)),
     System(Num(0), Bool(TRUE)),
     System(Num(MAX_PARTICLES_LIMIT + 1), Bool(FALSE))}

ValidatorEmitterValues ==
    {Undef, Str("none")}
        \cup {Arr(l) : l \in SeqsUpTo(ValidatorEntries, MaxEmitters)}

ValidatorDocs ==
    {RawDoc(sys, ems) : sys \in ValidatorSystems, ems \in ValidatorEmitterValues}

NoValidation == [threw |-> FALSE, valid |-> FALSE, errors |-> <<>>]

VdInit ==
    vd \in {[stage |-> "doc", doc |-> d, result |-> NoValidation] : d \in ValidatorDocs}

VdValidate ==
    /\ vd.stage = "doc"
    /\ vd' = [vd EXCEPT !.stage = "validated",
                        !.result = validateEditorConfig(vd.doc)]

VdIdle == [stage |-> "idle", doc |-> Undef, result |-> NoValidation]

\* ------------------------------------------------------------------------
\* Recentring of an emitter list
\* ------------------------------------------------------------------------

\* the stage reached, the call's arguments and its result
VARIABLE rc

Polygon ==
    Put(Put(PointEmitter(Pt(800, 600)), "type", Str("polygon")),
        "vertices", Arr(<<Pt(0, -100), Pt(100, 100), Pt(-100, 100)>>))

Area ==
    Put(Put(Put(PointEmitter(Pt(800, 600)), "type", Str("area")),
            "width", Num(200)), "height", Num(100))

Circle ==
    Put(Put(PointEmitter(Pt(800, 600)), "type", Str("circle")), "radius", Num(80))

Line(start, end) ==
    Put(Put(Put(PointEmitter(Pt(800, 600)), "type", Str("line")),
            "start", start), "end", end)

Path(path, points) ==
    Put(Put(Put(PointEmitter(Pt(0, 0)), "type", Str("path")),
            "path", path), "points", points)

Waypoints == Arr(<<Pt(200, 200), Pt(600, 400), Pt(1001, 300)>>)

RecentreEntries ==
    {PointEmitter(Pt(1000, 600)),
     Polygon,
     Area,
     Circle,
     Line(Pt(600, 600), Pt(1000, 600)),
     Line(Pt(600, 600), Undef),
     Line(Num(3), Obj(<<"x">>, <<Num(1)>>)),
     Path(Waypoints, Undef),
     Path(Undef, Arr(<<Pt(100, 100), Pt(300, 200)>>)),
     Path(Waypoints, Arr(<<>>)),
     Put(Put(Line(Pt(600, 600), Pt(1000, 600)), "path", Waypoints),
         "vertices", Arr(<<Pt(0, 0)>>)),
     Put(Put(Put(Put(BurstEmitter(Pt(801, 600), Num(10)), "start", Pt(2, 2)),
                 "end", Pt(4, 4)), "path", Waypoints), "points", Waypoints)}

\* canvas sizes: the default, an odd width, a larger and a smaller canvas,
\* and one differing from the default in height only
CanvasSizes == {<<800, 600>>, <<801, 600>>, <<1000, 800>>, <<600, 400>>, <<800, 700>>}

NoRecentre == [same |-> FALSE, emitters |-> <<>>]

RcInit ==
    rc \in {[stage |-> "args", emitters |-> l, old |-> o, new |-> n,
             result |-> NoRecentre] :
               l \in SeqsUpTo(RecentreEntries, MaxEmitters),
               o \in {<<800, 600>>, <<801, 600>>}, n \in CanvasSizes}

RcRecentre ==
    /\ rc.stage = "args"
    /\ rc' = [rc EXCEPT !.stage = "returned",
                        !.result = recentreEmittersOnResize(
                                       rc.emitters, rc.old[1], rc.old[2],
                                       rc.new[1], rc.new[2])]

RcIdle == [stage |-> "idle", emitters |-> <<>>, old |-> <<0, 0>>, new |-> <<0, 0>>,
           result |-> NoRecentre]


\* ------------------------------------------------------------------------
\* Objects by reference: the renormalizer and the exporter on a heap
\* ------------------------------------------------------------------------

\* A heap is a sequence of cells; a cell is an object or array node whose
\* vals are scalars or references to other cells.  An object literal, a
\* spread and Array.prototype.map allocate a new cell; an assignment
\* o[k] = v writes the cell o refers to.

\* the reference to the cell at address a
Ref(a) == Node("ref", FALSE, a, "", <<>>, <<>>)

\* [heap, ref] after allocating the cell
Alloc(heap, cell) == [heap |-> Append(heap, cell), ref |-> Ref(Len(heap) + 1)]

\* o[k] = v on the cell o refers to
Write(heap, o, k, v) == [heap EXCEPT ![o.n] = Put(@, k, v)]

\* o[k] read through a reference (undefined for a scalar o)
Read(heap, o, k) == IF o.t = "ref" THEN Get(heap[o.n], k) ELSE Undef

\* the state of a loop that allocates: the heap so far and the references
\* collected so far
Collected(heap, refs) == [heap |-> heap, refs |-> refs]

\* the loop state after one more allocation
Collect(acc, a) == Collected(a.heap, Append(acc.refs, a.ref))

RECURSIVE StoreVal(_, _), StoreVals(_, _)
\* the nested value v laid out in the heap, every object in its own cell
StoreVal(heap, v) ==
    IF v.t \in {"object", "array"}
    THEN LET r == StoreVals(Collected(heap, <<>>), v.vals)
         IN Alloc(r.heap, [v EXCEPT !.vals = r.refs])
    ELSE [heap |-> heap, ref |-> v]

\* the values not yet laid out are those after the collected references
StoreVals(acc, vals) ==
    IF Len(acc.refs) = Len(vals) THEN acc
    ELSE StoreVals(Collect(acc, StoreVal(acc.heap, vals[Len(acc.refs) + 1])), vals)

RECURSIVE Deref(_, _)
\* the nested value a reference (or scalar) stands for
Deref(heap, v) ==
    IF v.t = "ref"
    THEN LET cell == heap[v.n]
         IN [cell EXCEPT !.vals = [i \in 1..Len(cell.vals) |-> Deref(heap, cell.vals[i])]]
    ELSE v

\* { x: p.x + dx, y: p.y + dy }
shiftPointInHeap(heap, p, dx, dy) ==
    Alloc(heap, Obj(<<"x", "y">>,
                    <<JsAdd(Read(heap, p, "x"), dx), JsAdd(Read(heap, p, "y"), dy)>>))

RECURSIVE ShiftAllInHeap(_, _, _, _)
\* value.map((p) => shiftPoint(p, dx, dy)), from the first point not yet
\* mapped on
ShiftAllInHeap(acc, points, dx, dy) ==
    IF Len(acc.refs) = Len(points) THEN acc
    ELSE ShiftAllInHeap(Collect(acc, shiftPointInHeap(acc.heap,
                                                      points[Len(acc.refs) + 1],
                                                      dx, dy)),
                        points, dx, dy)

RECURSIVE ShiftFieldsInHeap(_, _, _, _, _, _, _)
\* the loop over the absolute-coordinate fields; returns the heap
ShiftFieldsInHeap(heap, updated, emitter, fields, i, dx, dy) ==
    IF i > Len(fields) THEN heap
    ELSE LET field == fields[i]
             value == Read(heap, emitter, field)
             next ==
                 IF value.t = "ref" /\ IsArray(heap[value.n])
                 THEN LET m == ShiftAllInHeap(Collected(heap, <<>>), heap[value.n].vals,
                                               dx, dy)
                          a == Alloc(m.heap, Arr(m.refs))
                      IN Write(a.heap, updated, field, a.ref)
                 ELSE IF value.t = "ref" /\ HasKey(heap[value.n], "x")
                         /\ HasKey(heap[value.n], "y")
                      THEN LET a == shiftPointInHeap(heap, value, dx, dy)
                           IN Write(a.heap, updated, field, a.ref)
                      ELSE heap
         IN ShiftFieldsInHeap(next, updated, emitter, fields, i + 1, dx, dy)

\* a callback that writes the emitter it was handed instead of a copy
RecentreEmitterInHeap_WritesArgument(heap, emitter, dx, dy) ==
    LET p == shiftPointInHeap(heap, Read(heap, emitter, "position"), dx, dy)
        h == Write(p.heap, emitter, "position", p.ref)
    IN [heap |-> ShiftFieldsInHeap(h, emitter, emitter,
                                   ABSOLUTE_COORD_TYPES(Read(h, emitter, "type")),
                                   1, dx, dy),
        ref |-> emitter]

\* the map callback: updated = { ...emitter } is a new cell holding the
\* emitter's own properties; every assignment writes updated
RecentreEmitterInHeap(heap, emitter, dx, dy) ==
    LET updated == Alloc(heap, heap[emitter.n])
        p == shiftPointInHeap(updated.heap, Read(updated.heap, emitter, "position"),
                              dx, dy)
        h == Write(p.heap, updated.ref, "position", p.ref)
    IN [heap |-> ShiftFieldsInHeap(h, updated.ref, emitter,
                                   ABSOLUTE_COORD_TYPES(Read(h, emitter, "type")),
                                   1, dx, dy),
        ref |-> updated.ref]

RECURSIVE MapRecentreInHeap(_, _, _, _)
\* emitters.map(callback), from the first emitter not yet mapped on
MapRecentreInHeap(acc, emitters, dx, dy) ==
    IF Len(acc.refs) = Len(emitters) THEN acc
    ELSE MapRecentreInHeap(Collect(acc, RecentreEmitterInHeap(
                                            acc.heap, emitters[Len(acc.refs) + 1],
                                            dx, dy)),
                           emitters, dx, dy)

\* recentreEmittersOnResize on the array cell emitters refers to
recentreEmittersOnResizeInHeap(heap, emitters, oldWidth, oldHeight, newWidth, newHeight) ==
    LET dx == JsSub(JsHalf(Num(newWidth)), JsHalf(Num(oldWidth)))
        dy == JsSub(JsHalf(Num(newHeight)), JsHalf(Num(oldHeight)))
    IN IF dx.n = 0 /\ dy.n = 0 THEN [heap |-> heap, ref |-> emitters]
       ELSE IF Len(heap[emitters.n].vals) = 0 THEN [heap |-> heap, ref |-> emitters]
       ELSE LET m == MapRecentreInHeap(Collected(heap, <<>>), heap[emitters.n].vals,
                                       dx, dy)
            IN Alloc(m.heap, Arr(m.refs))

RECURSIVE MapSpreadInHeap(_, _)
\* config.emitters.map((emitter) => ({ ...emitter })), from the first
\* emitter not yet mapped on
MapSpreadInHeap(acc, emitters) ==
    IF Len(acc.refs) = Len(emitters) THEN acc
    ELSE MapSpreadInHeap(Collect(acc, Alloc(acc.heap,
                                            acc.heap[emitters[Len(acc.refs) + 1].n])),
                         emitters)

\* editorConfigToYAML on the config cell: [heap, text]
editorConfigToYAMLInHeap(heap, config) ==
    LET m == MapSpreadInHeap(Collected(heap, <<>>),
                             heap[Read(heap, config, "emitters").n].vals)
        emitters == Alloc(m.heap, Arr(m.refs))
        system == Alloc(emitters.heap,
                        Obj(<<"maxParticles", "autoStart">>,
                            <<Read(heap, Read(heap, config, "system"), "maxParticles"),
                              Read(heap, Read(heap, config, "system"), "autoStart")>>))
        yamlConfig == Alloc(system.heap,
                            Obj(<<"system", "emitters">>, <<system.ref, emitters.ref>>))
    IN [heap |-> yamlConfig.heap, text |-> dump(Deref(yamlConfig.heap, yamlConfig.ref))]

\* a call in progress: the function, the heap and the arguments at the
\* call, and the heap and the result at the return
VARIABLE hp

\* emitters handed to the calls: every type with absolute fields, one
\* without, and a burst emitter carrying such fields under another type
HeapEntries ==
    {PointEmitter(Pt(1000, 600)),
     Polygon,
     Line(Pt(600, 600), Pt(1000, 600)),
     Path(Waypoints, Arr(<<Pt(100, 100), Pt(300, 200)>>)),
     Put(Put(BurstEmitter(Pt(801, 600), Num(10)), "start", Pt(2, 2)),
         "points", Waypoints)}

HeapCanvasSizes == {<<800, 600>>, <<801, 600>>, <<1000, 800>>}

HeapTexts ==
    {dump(RawDoc(System(Num(150), Bool(FALSE)), Arr(l))) : l \in SeqsUpTo(HeapEntries, 1)}

HpCall(fn, stored, text, new) ==
    [stage |-> "args", fn |-> fn, before |-> stored.heap, arg |-> stored.ref,
     text |-> text, new |-> new, after |-> <<>>, result |-> Undef, yaml |-> <<>>]

HpInit ==
    hp \in {HpCall("recentreEmittersOnResize", StoreVal(<<>>, Arr(l)), <<>>, n) :
                l \in SeqsUpTo(HeapEntries, MaxEmitters), n \in HeapCanvasSizes}
           \cup {HpCall("editorConfigToYAML",
                        StoreVal(<<>>, EditorConfig(Num(150), Bool(FALSE), l)),
                        <<>>, <<0, 0>>) :
                     l \in SeqsUpTo(HeapEntries, MaxEmitters)}
           \cup {HpCall("yamlToEditorConfig", [heap |-> <<>>, ref |-> Undef], t, <<0, 0>>) :
                     t \in HeapTexts}

HpRecentre ==
    /\ hp.stage = "args" /\ hp.fn = "recentreEmittersOnResize"
    /\ LET r == recentreEmittersOnResizeInHeap(hp.before, hp.arg,
                                               DEFAULT_CANVAS_WIDTH, DEFAULT_CANVAS_HEIGHT,
                                               hp.new[1], hp.new[2])
       IN hp' = [hp EXCEPT !.stage = "returned", !.after = r.heap, !.result = r.ref]

HpExport ==
    /\ hp.stage = "args" /\ hp.fn = "editorConfigToYAML"
    /\ LET r == editorConfigToYAMLInHeap(hp.before, hp.arg)
       IN hp' = [hp EXCEPT !.stage = "returned", !.after = r.heap, !.yaml = r.text]

\* yamlToEditorConfig takes a string: the document it builds is new
HpImport ==
    /\ hp.stage = "args" /\ hp.fn = "yamlToEditorConfig"
    /\ LET r == StoreVal(hp.before, yamlToEditorConfig(hp.text).config)
       IN hp' = [hp EXCEPT !.stage = "returned", !.after = r.heap, !.result = r.ref]

HpIdle ==
    [stage |-> "idle", fn |-> "", before |-> <<>>, arg |-> Undef, text |-> <<>>,
     new |-> <<0, 0>>, after |-> <<>>, result |-> Undef, yaml |-> <<>>]


\* ------------------------------------------------------------------------
\* UI handlers and store actions as steps
\* ------------------------------------------------------------------------

\* longest emitter list the add button is pressed on
MaxStoreEmitters == 2

EmptyAssets == [textures |-> {}, sequences |-> {}]

\* files a user may pick and example payloads: a document with two
\* emitters, one that passes the shape filter but breaks validator rules,
\* one without emitters, one whose only entry is filtered out, and two
\* texts with syntax errors
ImportTexts ==
    {dump(RawDoc(System(Num(150), Bool(FALSE)),
                 Arr(<<PointEmitter(Pt(200, 101)),
                       Line(Pt(600, 600), Pt(1000, 600))>>))),
     dump(RawDoc(System(Num(0), Bool(TRUE)),
                 Arr(<<Without(BurstEmitter(Pt(800, 600), Num(1)), "burstCount")>>))),
     dump(RawDoc(Undef, Arr(<<>>))),
     dump(RawDoc(Undef, Arr(<<Without(PointEmitter(Pt(10, 10)), "particle")>>))),
     <<Tok("MAP{", ""), Tok("KEY", "system")>>,
     <<Tok("MAP{", ""), Tok("KEY", "system"), Tok("PLAIN", "1"),
       Tok("KEY", "system"), Tok("PLAIN", "2"), Tok("}MAP", "")>>}

\* the default size, one with an odd width, and a larger one
StoreCanvasSizes == {<<800, 600>>, <<801, 600>>, <<1000, 800>>}

\* the try block shared by Header.handleImport and ExampleDetail.handleLoad
TryImport(name, before, text, okTitle, errTitle) ==
    LET r == yamlToEditorConfig(text)
    IN IF r.threw
       THEN /\ store' = store
            /\ toast' = [kind |-> "error", title |-> errTitle,
                         description |-> r.message]
            /\ handler' = Ran(name, before \o <<"yamlToEditorConfig", "toast.error">>)
       ELSE /\ store' = setPreviewState(loadConfig(store, r.config, EmptyAssets),
                                        "playing")
            /\ toast' = [kind |-> "success", title |-> okTitle, description |-> ""]
            /\ handler' = Ran(name, before \o <<"yamlToEditorConfig", "loadConfig",
                                                "setPreviewState", "toast.success">>)

\* Header.handleImport, from the moment the chosen file's text was read
handleImport(text) ==
    TryImport("handleImport", <<>>, text, "Imported", "Failed to import")

\* ExampleDetail.handleLoad; confirmed is the user's answer to confirm()
handleLoad(text, confirmed) ==
    IF store.ui.hasUnsavedChanges /\ ~confirmed
    THEN /\ handler' = Ran("handleLoad", <<"confirm">>)
         /\ toast' = NoToast
         /\ UNCHANGED store
    ELSE TryImport("handleLoad",
                   IF store.ui.hasUnsavedChanges THEN <<"confirm">> ELSE <<>>,
                   text, "Loaded", "Failed to load example")

\* Header.handleNew
handleNew(confirmed) ==
    IF store.ui.hasUnsavedChanges /\ ~confirmed
    THEN /\ handler' = Ran("handleNew", <<"confirm">>)
         /\ toast' = NoToast
         /\ UNCHANGED store
    ELSE /\ store' = resetToDefault(store)
         /\ handler' = Ran("handleNew",
                           (IF store.ui.hasUnsavedChanges THEN <<"confirm">> ELSE <<>>)
                               \o <<"resetToDefault">>)
         /\ toast' = NoToast

\* Header.handleExport
handleExport ==
    /\ store' = markSaved(store)
    /\ toast' = [kind |-> "success", title |-> "Configuration exported",
                 description |-> ""]
    /\ handler' = Ran("handleExport", <<"editorConfigToYAML", "markSaved",
                                         "toast.success">>)

\* the ResizeObserver callback of PreviewCanvas
Resize(size) ==
    /\ store' = setCanvasDimensions(store, size[1], size[2])
    /\ handler' = [Ran("resize", <<"setCanvasDimensions">>) EXCEPT
                       !.args = <<store.ui.canvasWidth, store.ui.canvasHeight,
                                  size[1], size[2]>>]
    /\ toast' = NoToast

\* Math.round(w / 2), in halves
RoundHalf(w) == 2 * ((w + 1) \div 2)

\* the emitter handleAddEmitter builds: a point emitter at the rounded
\* centre of the viewport
ViewportCentreEmitter ==
    PointEmitter(Pt(RoundHalf(store.ui.canvasWidth), RoundHalf(store.ui.canvasHeight)))

AddEmitter(emitter) ==
    /\ Len(Emitters(store)) < MaxStoreEmitters
    /\ store' = addEmitter(store, emitter)
    /\ handler' = Ran("addEmitter", <<"addEmitter">>)
    /\ toast' = NoToast

AddTexture(id) ==
    /\ id \notin store.assets.textures
    /\ store' = addTexture(store, id)
    /\ handler' = Ran("addTexture", <<"addTexture">>)
    /\ toast' = NoToast

\* ------------------------------------------------------------------------
\* Resizes of an authored layout
\* ------------------------------------------------------------------------

\* the emitters and the canvas size when the last document was loaded or
\* edited, and the number of setCanvasDimensions calls since then
VARIABLE ly

\* longest run of resizes followed
MaxResizes == 3

\* the double nearest 450.3
Typed450_3 == Fixed(FALSE, <<13422592, 13421772, 115276>>)

\* values typed into the X field of the position input
TypedCoordinates == {Typed450_3, Num(120)}

\* documents to lay out: a point and a line emitter, and a path emitter
\* with waypoints in both of its fields
LayoutTexts ==
    {dump(RawDoc(System(Num(150), Bool(FALSE)),
                 Arr(<<PointEmitter(Pt(200, 101)),
                       Line(Pt(600, 600), Pt(1000, 600))>>))),
     dump(RawDoc(System(Num(1000), Bool(TRUE)),
                 Arr(<<Path(Waypoints, Arr(<<Pt(100, 100), Pt(300, 200)>>))>>)))}

LyStart(st) ==
    [origin |-> Emitters(st), size |-> <<st.ui.canvasWidth, st.ui.canvasHeight>>,
     resizes |-> 0]

\* a document is imported and becomes the layout to keep centred
LyImport(text) ==
    /\ handleImport(text)
    /\ ly' = LyStart(store')

\* Vector2Input's onChange for X on the selected emitter's position,
\* handed to updateEmitter by EmitterProperties.handleUpdate
LyEditPosition(parsed) ==
    /\ ly.resizes = 0
    /\ store.ui.selectedEmitterIndex # NULL
    /\ LET index == store.ui.selectedEmitterIndex
           value == Get(Emitters(store)[index + 1], "position")
       IN store' = updateEmitter(store, index,
                                 Obj(<<"position">>, <<Put(Spread(value), "x", parsed)>>))
    /\ handler' = Ran("handleUpdate", <<"updateEmitter">>)
    /\ toast' = NoToast
    /\ ly' = LyStart(store')

LyResize(size) ==
    /\ ly.resizes < MaxResizes
    /\ Resize(size)
    /\ ly' = [ly EXCEPT !.resizes = @ + 1]

LyIdle == [origin |-> <<>>, size |-> <<DEFAULT_CANVAS_WIDTH, DEFAULT_CANVAS_HEIGHT>>,
           resizes |-> 0]

\* ------------------------------------------------------------------------
\* The sequence detector (utils/sequenceDetector)
\* ------------------------------------------------------------------------

\* A File object: its identity and its name, the name being the sequence
\* of its characters.
File(id, name) == [id |-> id, name |-> name]

DecimalDigits == <<"0", "1", "2", "3", "4", "5", "6", "7", "8", "9">>

\* \d
IsDigit(c) == \E d \in 1..10 : DecimalDigits[d] = c

DigitValue(c) == (CHOOSE d \in 1..10 : DecimalDigits[d] = c) - 1

\* \d+ over the whole of s
IsDigitRun(s) == Len(s) > 0 /\ \A i \in 1..Len(s) : IsDigit(s[i])

\* String.prototype.includes for one character
includes(s, c) == \E i \in 1..Len(s) : s[i] = c

\* parseInt(numberStr, 10) on a run of digits
RECURSIVE parseInt(_)
parseInt(numberStr) ==
    IF numberStr = <<>> THEN 0
    ELSE parseInt(SubSeq(numberStr, 1, Len(numberStr) - 1)) * 10
         + DigitValue(numberStr[Len(numberStr)])

\* Number.prototype.toString for a non-negative integer
RECURSIVE toString(_)
toString(number) ==
    IF number < 10 THEN <<DecimalDigits[number + 1]>>
    ELSE Append(toString(number \div 10), DecimalDigits[(number % 10) + 1])

\* String.prototype.padStart(width, '0'): never shortens
padStart(str, width) ==
    IF Len(str) >= width THEN str
    ELSE [i \in 1..(width - Len(str)) |-> "0"] \o str

NoMatch == [matched |-> FALSE, base |-> <<>>, numberStr |-> <<>>, extension |-> <<>>]

\* filename.match(/^(.+?)_?(\d+)\.([^.]+)$/): the extension is what follows
\* the last dot and is not empty; before that dot the lazy group takes the
\* shortest non-empty prefix after which an optional underscore and a run
\* of digits reach the dot.
FrameMatch(filename) ==
    LET dots == {i \in 1..Len(filename) : filename[i] = "."}
        dot == IF dots = {} THEN 0 ELSE CHOOSE i \in dots : \A j \in dots : j <= i
        stem == SubSeq(filename, 1, dot - 1)
        extension == SubSeq(filename, dot + 1, Len(filename))
        Rest(k) == SubSeq(stem, k + 1, Len(stem))
        Fits(k) == \/ IsDigitRun(Rest(k))
                   \/ Len(Rest(k)) > 0 /\ Rest(k)[1] = "_" /\ IsDigitRun(Tail(Rest(k)))
        bases == {k \in 1..Len(stem) : Fits(k)}
    IN IF dot = 0 \/ extension = <<>> \/ bases = {} THEN NoMatch
       ELSE LET k == CHOOSE b \in bases : \A c \in bases : b <= c
            IN [matched |-> TRUE,
                base |-> SubSeq(stem, 1, k),
                numberStr |-> IF Rest(k)[1] = "_" THEN Tail(Rest(k)) ELSE Rest(k),
                extension |-> extension]

NullInfo == [isNull |-> TRUE, base |-> <<>>, number |-> 0, padding |-> 0,
             extension |-> <<>>]

extractFrameInfo(filename) ==
    LET match == FrameMatch(filename)
    IN IF ~match.matched THEN NullInfo
       ELSE [isNull |-> FALSE,
             base |-> match.base \o (IF includes(filename, "_") THEN <<"_">> ELSE <<>>),
             number |-> parseInt(match.numberStr),
             padding |-> Len(match.numberStr),
             extension |-> match.extension]

\* files.map(file => ({ file, info })).filter(item => item.info !== null)
FrameInfos(files) ==
    SelectSeq([i \in 1..Len(files) |->
                  [file |-> files[i], info |-> extractFrameInfo(files[i].name)]],
              LAMBDA item : ~item.info.isNull)

\* the Map key `${base}_${extension}`
GroupKey(item) == item.info.base \o <<"_">> \o item.info.extension

\* the keys of the groups Map, in insertion order
RECURSIVE GroupKeys(_)
GroupKeys(frameInfos) ==
    IF frameInfos = <<>> THEN <<>>
    ELSE LET front == GroupKeys(SubSeq(frameInfos, 1, Len(frameInfos) - 1))
             key == GroupKey(frameInfos[Len(frameInfos)])
         IN IF \E i \in 1..Len(front) : front[i] = key THEN front
            ELSE Append(front, key)

\* groups.values(): each group holds its items in input order
Groups(frameInfos) ==
    LET keys == GroupKeys(frameInfos)
    IN [k \in 1..Len(keys) |->
           SelectSeq(frameInfos, LAMBDA item : GroupKey(item) = keys[k])]

\* the body of the largest-group loop, taking a group of equal size too
LargerGroup_LastWinsTies(largestGroup, group) ==
    IF Len(group) >= Len(largestGroup) THEN group ELSE largestGroup

\* the body of the largest-group loop
LargerGroup(largestGroup, group) ==
    IF Len(group) > Len(largestGroup) THEN group ELSE largestGroup

RECURSIVE LargestGroup(_, _)
LargestGroup(groups, largestGroup) ==
    IF groups = <<>> THEN largestGroup
    ELSE LargestGroup(Tail(groups), LargerGroup(largestGroup, Head(groups)))

\* the place of an item in an array sorted by frame number: behind every
\* item whose number is not larger (Array.prototype.sort is stable)
InsertByNumber(sorted, item) ==
    LET k == Cardinality({i \in 1..Len(sorted) :
                            sorted[i].info.number <= item.info.number})
    IN SubSeq(sorted, 1, k) \o <<item>> \o SubSeq(sorted, k + 1, Len(sorted))

RECURSIVE SortedGroup(_)
SortedGroup(group) ==
    IF group = <<>> THEN <<>>
    ELSE InsertByNumber(SortedGroup(SubSeq(group, 1, Len(group) - 1)),
                        group[Len(group)])

\* largestGroup.sort(...) left out
SortByNumber_KeepsInputOrder(largestGroup) == largestGroup

\* largestGroup.sort((a, b) => a.info.number - b.info.number)
SortByNumber(largestGroup) == SortedGroup(largestGroup)

\* the gaps loop from i upwards
RECURSIVE GapsFrom(_, _, _)
GapsFrom(i, last, frameNumbers) ==
    IF i >= last THEN <<>>
    ELSE (IF i \in frameNumbers THEN <<>> ELSE <<i>>)
         \o GapsFrom(i + 1, last, frameNumbers)

\* the keys of the paddingCounts Map, in insertion order
RECURSIVE PaddingKeys(_)
PaddingKeys(largestGroup) ==
    IF largestGroup = <<>> THEN <<>>
    ELSE LET front == PaddingKeys(SubSeq(largestGroup, 1, Len(largestGroup) - 1))
             padding == largestGroup[Len(largestGroup)].info.padding
         IN IF \E i \in 1..Len(front) : front[i] = padding THEN front
            ELSE Append(front, padding)

\* paddingCounts.get(padding)
PaddingCount(largestGroup, padding) ==
    Cardinality({i \in 1..Len(largestGroup) : largestGroup[i].info.padding = padding})

\* the body of the most-common-padding loop, taking the longest padding
MoreCommon_Longest(best, padding, count) ==
    IF padding > best.maxPadding THEN [maxPadding |-> padding, maxCount |-> count]
    ELSE best

\* the body of the most-common-padding loop
MoreCommon(best, padding, count) ==
    IF count > best.maxCount THEN [maxPadding |-> padding, maxCount |-> count]
    ELSE best

RECURSIVE MostCommon(_, _, _)
MostCommon(largestGroup, paddings, best) ==
    IF paddings = <<>> THEN best
    ELSE MostCommon(largestGroup, Tail(paddings),
                    MoreCommon(best, Head(paddings),
                               PaddingCount(largestGroup, Head(paddings))))

\* base.replace(/_$/, '')
StripUnderscore(base) ==
    IF Len(base) > 0 /\ base[Len(base)] = "_" THEN SubSeq(base, 1, Len(base) - 1)
    ELSE base

NullSequence ==
    [isNull |-> TRUE, baseName |-> <<>>, pattern |-> <<>>, startFrame |-> 0,
     endFrame |-> 0, padding |-> 0, gaps |-> <<>>, files |-> <<>>]

\* lines 87-127: the SequenceInfo of the selected group, sorted
SequenceOf(largestGroup) ==
    LET firstInfo == largestGroup[1].info
        lastInfo == largestGroup[Len(largestGroup)].info
        frameNumbers == {largestGroup[i].info.number : i \in 1..Len(largestGroup)}
        maxPadding == MostCommon(largestGroup, PaddingKeys(largestGroup),
                                 [maxPadding |-> 0, maxCount |-> 0]).maxPadding
    IN [isNull |-> FALSE,
        baseName |-> StripUnderscore(firstInfo.base),
        pattern |-> firstInfo.base \o <<"{">>
                    \o padStart(toString(firstInfo.number), maxPadding) \o <<"-">>
                    \o padStart(toString(lastInfo.number), maxPadding)
                    \o <<"}", ".">> \o firstInfo.extension,
        startFrame |-> firstInfo.number,
        endFrame |-> lastInfo.number,
        padding |-> maxPadding,
        gaps |-> GapsFrom(firstInfo.number + 1, lastInfo.number, frameNumbers),
        files |-> [i \in 1..Len(largestGroup) |-> largestGroup[i].file]]

\* lines 82-85: the largest group, if it has two frames, sorted
SequenceOfGroup(largestGroup) ==
    IF Len(largestGroup) < 2 THEN NullSequence
    ELSE SequenceOf(SortByNumber(largestGroup))

\* lines 62-80: the largest group of the numbered files
SequenceOfInfos(frameInfos) ==
    IF Len(frameInfos) < 2 THEN NullSequence
    ELSE SequenceOfGroup(LargestGroup(Groups(frameInfos), <<>>))

detectSequence(files) ==
    IF Len(files) < 2 THEN NullSequence
    ELSE SequenceOfInfos(FrameInfos(files))

\* autoDetectSequences handing every file back as an individual file
autoDetectSequences_KeepsProcessed(files) ==
    LET sequence == detectSequence(files)
    IN [sequences |-> IF sequence.isNull THEN <<>> ELSE <<sequence>>,
        individualFiles |-> files]

\* processedFiles is a Set of File objects: membership is by identity
autoDetectSequences(files) ==
    LET sequence == detectSequence(files)
        processedFiles == {sequence.files[i].id : i \in 1..Len(sequence.files)}
    IN [sequences |-> IF sequence.isNull THEN <<>> ELSE <<sequence>>,
        individualFiles |-> SelectSeq(files, LAMBDA file : file.id \notin processedFiles)]

\* the three warnings, each with the values its template interpolates
MissingFrames(gaps) == [text |-> "Missing frames", frames |-> gaps, count |-> Len(gaps)]

Shortfall(expectedFrames, actualFrames) ==
    [text |-> "Expected frames, found", frames |-> <<expectedFrames, actualFrames>>,
     count |-> actualFrames]

TooShort == [text |-> "Sequence has less than 2 frames", frames |-> <<>>, count |-> 0]

validateSequence(sequence) ==
    LET expectedFrames == sequence.endFrame - sequence.startFrame + 1
        actualFrames == Len(sequence.files)
        warnings ==
            (IF Len(sequence.gaps) > 0 THEN <<MissingFrames(sequence.gaps)>> ELSE <<>>)
            \o (IF actualFrames < expectedFrames
                THEN <<Shortfall(expectedFrames, actualFrames)>> ELSE <<>>)
            \o (IF actualFrames < 2 THEN <<TooShort>> ELSE <<>>)
    IN [valid |-> Len(warnings) = 0, warnings |-> warnings]

\* ------------------------------------------------------------------------
\* Uploads handed to the sequence detector
\* ------------------------------------------------------------------------

\* the files of one upload, what the detector made of them, and the
\* verdict of validateSequence on the detected sequence
VARIABLE sq

\* largest number of files in one upload
MaxFiles == 5

\* Files that can be uploaded: frames 1, 1 (written 01), 3 and 10 of c_,
\* frames 2 and 4 of s, a file without a number, and a c_ frame with
\* another extension.
FilePool ==
    {File(1, <<"c", "_", "1", ".", "p">>),
     File(2, <<"c", "_", "0", "1", ".", "p">>),
     File(3, <<"c", "_", "3", ".", "p">>),
     File(4, <<"c", "_", "1", "0", ".", "p">>),
     File(5, <<"s", "2", ".", "p">>),
     File(6, <<"s", "4", ".", "p">>),
     File(7, <<"x", ".", "p">>),
     File(8, <<"c", "_", "2", ".", "j">>)}

\* the FileLists of up to n files: a FileList holds each File once
RECURSIVE FileLists(_)
FileLists(n) ==
    IF n = 0 THEN {<<>>}
    ELSE LET shorter == FileLists(n - 1)
         IN shorter \cup
            UNION {{Append(files, file) :
                       file \in {f \in FilePool : \A i \in 1..Len(files) : files[i] # f}} :
                   files \in {l \in shorter : Len(l) = n - 1}}

Uploads == FileLists(MaxFiles)

NotValidated == [valid |-> FALSE, warnings |-> <<>>]

SqInit ==
    sq \in {[stage |-> "selected", files |-> files, sequences |-> <<>>,
             individualFiles |-> <<>>, validation |-> NotValidated] :
               files \in Uploads}

\* detectSequence called on the upload
SqDetect ==
    /\ sq.stage = "selected"
    /\ LET sequence == detectSequence(sq.files)
       IN sq' = [sq EXCEPT !.stage = "detected",
                           !.sequences = IF sequence.isNull THEN <<>> ELSE <<sequence>>]

\* handleFileSelect's call of autoDetectSequences
SqAutoDetect ==
    /\ sq.stage = "selected"
    /\ LET result == autoDetectSequences(sq.files)
       IN sq' = [sq EXCEPT !.stage = "split",
                           !.sequences = result.sequences,
                           !.individualFiles = result.individualFiles]

\* handleFileSelect's call of validateSequence on a detected sequence
SqValidate ==
    /\ sq.stage \in {"detected", "split"}
    /\ Len(sq.sequences) > 0
    /\ sq' = [sq EXCEPT !.stage = "validated",
                        !.validation = validateSequence(sq.sequences[1])]

SqIdle == [stage |-> "idle", files |-> <<>>, sequences |-> <<>>,
           individualFiles |-> <<>>, validation |-> NotValidated]

\* ------------------------------------------------------------------------
\* Loads into a store in use
\* ------------------------------------------------------------------------

\* whether the last step was a loadConfig call and, if so, its arguments
\* and the ui state it found
VARIABLE ld

\* documents to load: a point and a line emitter; a path emitter with
\* waypoints in both of its fields and a polygon; and no emitters
LoadTexts ==
    {dump(RawDoc(System(Num(150), Bool(FALSE)),
                 Arr(<<PointEmitter(Pt(200, 101)),
                       Line(Pt(600, 600), Pt(1000, 600))>>))),
     dump(RawDoc(System(Num(1000), Bool(TRUE)),
                 Arr(<<Path(Waypoints, Arr(<<Pt(100, 100), Pt(300, 200)>>)),
                       Polygon>>))),
     dump(RawDoc(Undef, Arr(<<>>)))}

\* the configs the import handlers pass to loadConfig
LoadConfigs == {yamlToEditorConfig(t).config : t \in LoadTexts}

LoadAssets == {EmptyAssets, [textures |-> {"tex"}, sequences |-> {}]}

NotLoading == [called |-> FALSE, config |-> Undef, assets |-> EmptyAssets,
               before |-> createDefaultUIState]

LdLoad(cfg, newAssets) ==
    /\ store' = loadConfig(store, cfg, newAssets)
    /\ handler' = Ran("loadConfig", <<"loadConfig">>)
    /\ toast' = NoToast
    /\ ld' = [called |-> TRUE, config |-> cfg, assets |-> newAssets, before |-> store.ui]

LdResize(size) == Resize(size) /\ ld' = NotLoading

LdAddEmitter == AddEmitter(ViewportCentreEmitter) /\ ld' = NotLoading

LdAddTexture == AddTexture("tex") /\ ld' = NotLoading

\* the eye button of the first emitter's row
LdToggleVisibility ==
    /\ Len(Emitters(store)) > 0
    /\ store' = toggleEmitterVisibility(store, 0)
    /\ handler' = Ran("toggleEmitterVisibility", <<"toggleEmitterVisibility">>)
    /\ toast' = NoToast
    /\ ld' = NotLoading

\* the play button
LdPlay ==
    /\ store.ui.previewState # "playing"
    /\ store' = setPreviewState(store, "playing")
    /\ handler' = Ran("setPreviewState", <<"setPreviewState">>)
    /\ toast' = NoToast
    /\ ld' = NotLoading

LdIdle == NotLoading

\* ------------------------------------------------------------------------
\* Edits, undo and redo under the snapshot discipline
\* ------------------------------------------------------------------------

\* the last store call (op); the snapshots taken by the pushHistory calls
\* that are not undone (pushed, oldest first) and by those that are (undone,
\* most recent undo first); after an undo that had a snapshot to return to,
\* that snapshot (expected) and the config and selection before the undo
\* (before); after a redo that directly follows such an undo, the config and
\* selection before that undo (before); the run of successive undos
\* followed by successive redos the last call belongs to; whether an undo
\* took effect since the last pushHistory (offTip); whether selectEmitter
\* was called since the last undo or redo that no pushHistory followed
\* (stale); with before, whether it had not been (kept); and after
\* pushHistory whether canRedo() held before it (hadRedo); and after an
\* edit of the emitter list its index arguments (args) and the emitters,
\* hidden indices and selection it found (prior)
VARIABLE hs

\* most pushHistory calls that are not undone
MaxSnapshots == 2

NoEntry ==
    [config |-> Undef,
     selection |-> [selectedEmitterIndex |-> NULL, selectedBehaviorIndex |-> NULL],
     label |-> "none"]

NoRun == [start |-> Undef, undos |-> 0, redos |-> 0]

NoPrior == [emitters |-> <<>>, hiddenEmitterIndices |-> {}, selectedEmitterIndex |-> NULL]

HsIdle ==
    [op |-> "none", pushed |-> <<>>, undone |-> <<>>, expected |-> NoEntry,
     before |-> NoEntry, run |-> NoRun, offTip |-> FALSE, stale |-> FALSE,
     kept |-> FALSE, hadRedo |-> FALSE, args |-> <<>>, prior |-> NoPrior]

\* emitters the add button may create
HistoryEmitters == {PointEmitter(Pt(0, 0)), BurstEmitter(Pt(20, 20), Num(3))}

\* indices selectEmitter is called with: null or a row of the list
Selectable(st) == {NULL} \cup (0..(Len(Emitters(st)) - 1))

Front(s) == SubSeq(s, 1, Len(s) - 1)

HsCall(name, st) ==
    /\ store' = st
    /\ handler' = Ran(name, <<name>>)
    /\ toast' = NoToast

HsPushHistory ==
    /\ Len(hs.pushed) < MaxSnapshots
    /\ HsCall("pushHistory", pushHistory(store, "edit"))
    /\ hs' = [HsIdle EXCEPT !.op = "pushHistory",
                            !.pushed = Append(hs.pushed, createSnapshot(store)),
                            !.hadRedo = canRedo(store)]

\* a document mutation, made right after pushHistory
HsMutation(name, st) ==
    /\ hs.op = "pushHistory"
    /\ HsCall(name, st)
    /\ hs' = [HsIdle EXCEPT !.op = name, !.pushed = hs.pushed]

HsAddEmitter(emitter) ==
    /\ Len(Emitters(store)) < MaxStoreEmitters
    /\ HsMutation("addEmitter", addEmitter(store, emitter))

HsRemoveEmitter(index) ==
    /\ index < Len(Emitters(store))
    /\ HsMutation("removeEmitter", removeEmitter(store, index))

HsSelectEmitter(index) ==
    /\ index \in Selectable(store)
    /\ index # store.ui.selectedEmitterIndex
    /\ HsCall("selectEmitter", selectEmitter(store, index))
    /\ hs' = [HsIdle EXCEPT !.op = "selectEmitter", !.pushed = hs.pushed,
                            !.undone = hs.undone, !.offTip = hs.offTip,
                            !.stale = hs.stale \/ hs.offTip]

HsUndo ==
    LET effective == hs.pushed # <<>>
    IN /\ HsCall("undo", undo(store))
       /\ hs' = IF ~effective
                THEN [HsIdle EXCEPT !.op = "undo", !.undone = hs.undone,
                                    !.offTip = hs.offTip, !.stale = hs.stale]
                ELSE [op |-> "undo",
                      pushed |-> Front(hs.pushed),
                      undone |-> <<hs.pushed[Len(hs.pushed)]>> \o hs.undone,
                      expected |-> hs.pushed[Len(hs.pushed)],
                      before |-> createSnapshot(store),
                      run |-> IF hs.op = "undo" /\ hs.run # NoRun
                              THEN [hs.run EXCEPT !.undos = @ + 1]
                              ELSE [start |-> store.config, undos |-> 1, redos |-> 0],
                      offTip |-> TRUE,
                      stale |-> FALSE,
                      kept |-> ~hs.stale,
                      hadRedo |-> FALSE,
                      args |-> <<>>,
                      prior |-> NoPrior]

HsRedo ==
    LET effective == hs.undone # <<>>
    IN /\ HsCall("redo", redo(store))
       /\ hs' = IF ~effective
                THEN [HsIdle EXCEPT !.op = "redo", !.pushed = hs.pushed,
                                    !.offTip = hs.offTip, !.stale = hs.stale]
                ELSE [op |-> "redo",
                      pushed |-> Append(hs.pushed, Head(hs.undone)),
                      undone |-> Tail(hs.undone),
                      expected |-> NoEntry,
                      before |-> IF hs.op = "undo" THEN hs.before ELSE NoEntry,
                      run |-> IF hs.op \in {"undo", "redo"} /\ hs.run # NoRun
                              THEN [hs.run EXCEPT !.redos = @ + 1]
                              ELSE NoRun,
                      offTip |-> TRUE,
                      stale |-> FALSE,
                      kept |-> hs.op = "undo" /\ hs.kept,
                      hadRedo |-> FALSE,
                      args |-> <<>>,
                      prior |-> NoPrior]

\* ------------------------------------------------------------------------
\* The history at its cap
\* ------------------------------------------------------------------------

\* the document loadConfig is called with: an imported text without system
\* and emitters
CapConfig == yamlToEditorConfig(dump(RawDoc(Undef, Arr(<<>>)))).config

\* a store call outside the snapshot discipline
HcCall(name, st) ==
    /\ store' = st
    /\ UNCHANGED <<handler, toast, hs>>

HcPushHistory == HcCall("pushHistory", pushHistory(store, "edit"))

HcUndo == HcCall("undo", undo(store))

HcRedo == HcCall("redo", redo(store))

HcResetToDefault == HcCall("resetToDefault", resetToDefault(store))

HcLoadConfig == HcCall("loadConfig", loadConfig(store, CapConfig, EmptyAssets))

\* ------------------------------------------------------------------------
\* Edits of the emitter list
\* ------------------------------------------------------------------------

\* longest emitter list the list edits produce
MaxListed == 3

\* the emitters, the hidden indices and the selection a list edit found
Prior(st) ==
    [emitters |-> Emitters(st),
     hiddenEmitterIndices |-> st.ui.hiddenEmitterIndices,
     selectedEmitterIndex |-> st.ui.selectedEmitterIndex]

\* a list edit: its name, its index arguments and what it found
EmCall(name, args, st) ==
    /\ HsCall(name, st)
    /\ hs' = [HsIdle EXCEPT !.op = name, !.args = args, !.prior = Prior(store)]

Rows(st) == 0..(Len(Emitters(st)) - 1)

EmAddEmitter(emitter) ==
    /\ Len(Emitters(store)) < MaxListed
    /\ EmCall("addEmitter", <<>>, addEmitter(store, emitter))

EmRemoveEmitter(index) ==
    /\ index \in Rows(store)
    /\ EmCall("removeEmitter", <<index>>, removeEmitter(store, index))

EmDuplicateEmitter(index) ==
    /\ index \in Rows(store)
    /\ Len(Emitters(store)) < MaxListed
    /\ EmCall("duplicateEmitter", <<index>>, duplicateEmitter(store, index))

EmReorderEmitters(startIndex, endIndex) ==
    /\ startIndex \in Rows(store)
    /\ endIndex \in Rows(store)
    /\ EmCall("reorderEmitters", <<startIndex, endIndex>>,
              reorderEmitters(store, startIndex, endIndex))

EmToggleEmitterVisibility(index) ==
    /\ index \in Rows(store)
    /\ EmCall("toggleEmitterVisibility", <<index>>,
              toggleEmitterVisibility(store, index))

\* ------------------------------------------------------------------------
\* Edits, history and loads without the snapshot discipline
\* ------------------------------------------------------------------------

\* longest history pushHistory is called on
MaxStored == 0

\* the documents loadConfig is called with: an imported text without
\* system and emitters, and one with a point emitter at the centre of the
\* authoring canvas
SelectionConfigs ==
    {CapConfig,
     yamlToEditorConfig(dump(RawDoc(System(Num(DEFAULT_MAX_PARTICLES), Bool(TRUE)),
                                    Arr(<<PointEmitter(Pt(800, 600))>>)))).config}

SlPushHistory ==
    /\ Len(store.history) <= MaxStored
    /\ HcCall("pushHistory", pushHistory(store, "edit"))

\* handleAddEmitter
SlAddEmitter ==
    /\ Len(Emitters(store)) < MaxStoreEmitters
    /\ HcCall("addEmitter", addEmitter(store, ViewportCentreEmitter))

SlRemoveEmitter(index) ==
    /\ index \in Rows(store)
    /\ HcCall("removeEmitter", removeEmitter(store, index))

SlDuplicateEmitter(index) ==
    /\ index \in Rows(store)
    /\ Len(Emitters(store)) < MaxStoreEmitters
    /\ HcCall("duplicateEmitter", duplicateEmitter(store, index))

SlReorderEmitters(startIndex, endIndex) ==
    /\ startIndex \in Rows(store)
    /\ endIndex \in Rows(store)
    /\ HcCall("reorderEmitters", reorderEmitters(store, startIndex, endIndex))

SlSelectEmitter(index) ==
    /\ index \in Selectable(store)
    /\ HcCall("selectEmitter", selectEmitter(store, index))

SlLoadConfig(cfg) ==
    /\ HcCall("loadConfig", loadConfig(store, cfg, EmptyAssets))

\* ------------------------------------------------------------------------
\* The debounced rebuild effect of PreviewCanvas
\* ------------------------------------------------------------------------

\* appReady: appRef.current is set; effect: the number of the last run of
\* the rebuild effect; configs: the config each run closed over; cancelled:
\* the runs whose cancelled flag is set; timers: the runs whose timeout is
\* pending; pc: where the timeout callback of each run stands ("timer": not
\* called, "textures": at await buildTextureMap, "system": at await
\* ConfigLoader.loadFromString, "done": returned or never to be called);
\* systemRef, rendererRef: the run whose system or renderer the ref holds
\* (0: null); error: the message set by setError; fired: the run of the
\* last timeout that expired (0: none); installs: for each assignment of
\* systemRef, the run that made it and the last run of the effect then
VARIABLE pv

\* most runs of the rebuild effect
MaxEffects == 4

\* the documents the store is given while the preview is mounted: one with
\* two emitters, one that passes the shape filter but breaks validator
\* rules, and one without emitters
PreviewConfigs ==
    {yamlToEditorConfig(t).config : t \in
        {dump(RawDoc(System(Num(150), Bool(FALSE)),
                     Arr(<<PointEmitter(Pt(200, 101)),
                           Line(Pt(600, 600), Pt(1000, 600))>>))),
         dump(RawDoc(System(Num(0), Bool(TRUE)),
                     Arr(<<Without(BurstEmitter(Pt(800, 600), Num(1)), "burstCount")>>))),
         dump(RawDoc(Undef, Arr(<<>>)))}}

PvIdle ==
    [appReady |-> FALSE, effect |-> 0, configs |-> <<>>, cancelled |-> {},
     timers |-> {}, pc |-> <<>>, systemRef |-> 0, rendererRef |-> 0,
     error |-> "", fired |-> 0, installs |-> {}]

\* the first run of the effect, when the component mounts
PvMounted ==
    [PvIdle EXCEPT !.effect = 1, !.configs = <<createDefaultConfig>>,
                   !.timers = {1}, !.pc = <<"timer">>]

\* the async initialisation of the PixiJS app completes
PvInitApp ==
    /\ ~pv.appReady
    /\ pv' = [pv EXCEPT !.appReady = TRUE]
    /\ UNCHANGED <<store, toast, handler>>

\* the cleanup of the last run of the effect followed by the next run,
\* which closes over config
RerunEffect(p, config) ==
    [p EXCEPT !.effect = p.effect + 1,
              !.configs = Append(p.configs, config),
              !.cancelled = p.cancelled \cup {p.effect},
              !.timers = (p.timers \ {p.effect}) \cup {p.effect + 1},
              !.pc = Append([p.pc EXCEPT ![p.effect] =
                                IF @ = "timer" THEN "done" ELSE @], "timer")]

\* the store is given a new document and the component renders
PvConfigChange(cfg) ==
    /\ pv.effect < MaxEffects
    /\ store' = loadConfig(store, cfg, EmptyAssets)
    /\ pv' = RerunEffect(pv, loadConfig(store, cfg, EmptyAssets).config)
    /\ handler' = Ran("loadConfig", <<"loadConfig">>)
    /\ toast' = NoToast

\* the timeout callback up to its first await
TimerBody(p, g) ==
    IF g \in p.cancelled \/ ~p.appReady THEN [p EXCEPT !.pc[g] = "done"]
    ELSE LET torn == [p EXCEPT !.systemRef = 0, !.rendererRef = 0]
             validation == validateEditorConfig(p.configs[g])
         IN IF Len(Get(p.configs[g], "emitters").vals) = 0
            THEN [torn EXCEPT !.pc[g] = "done", !.error = ""]
            ELSE IF validation.threw
            THEN [torn EXCEPT !.pc[g] = "done"]
            ELSE IF ~validation.valid
            THEN [torn EXCEPT !.pc[g] = "done", !.error = "Invalid configuration"]
            ELSE [torn EXCEPT !.pc[g] = "textures"]

\* the debounce timeout of run g expires
PvTimerFire(g) ==
    /\ g \in pv.timers
    /\ LET p == [pv EXCEPT !.timers = @ \ {g}, !.fired = g]
           validation == validateEditorConfig(pv.configs[g])
           failed == /\ g \notin pv.cancelled
                     /\ pv.appReady
                     /\ Len(Get(pv.configs[g], "emitters").vals) > 0
                     /\ ~validation.threw
                     /\ ~validation.valid
       IN /\ pv' = TimerBody(p, g)
          /\ toast' = IF failed
                      THEN [kind |-> "error", title |-> "Configuration validation failed",
                            description |-> ""]
                      ELSE NoToast
          /\ handler' = Ran("rebuild", <<"setTimeout callback">>)
    /\ UNCHANGED store

\* buildTextureMap resolves for run g: the code between the two awaits
PvTexturesLoaded(g) ==
    /\ g \in 1..pv.effect
    /\ pv.pc[g] = "textures"
    /\ pv' = IF g \in pv.cancelled THEN [pv EXCEPT !.pc[g] = "done"]
             ELSE [pv EXCEPT !.pc[g] = "system", !.rendererRef = g]
    /\ handler' = Ran("rebuild", <<"buildTextureMap">>)
    /\ toast' = NoToast
    /\ UNCHANGED store

\* the code after await ConfigLoader.loadFromString without the cancelled
\* check
AfterLoad_IgnoresCancelled(p, g, ok) ==
    IF ~ok
    THEN IF g \in p.cancelled THEN [p EXCEPT !.pc[g] = "done"]
         ELSE [p EXCEPT !.pc[g] = "done", !.error = "Failed to load system"]
    ELSE [p EXCEPT !.pc[g] = "done", !.systemRef = g, !.error = "",
                   !.installs = @ \cup {<<g, p.effect>>}]

\* the code after await ConfigLoader.loadFromString; ok: it resolved
AfterLoad(p, g, ok) ==
    IF g \in p.cancelled THEN [p EXCEPT !.pc[g] = "done"]
    ELSE IF ~ok THEN [p EXCEPT !.pc[g] = "done", !.error = "Failed to load system"]
    ELSE [p EXCEPT !.pc[g] = "done", !.systemRef = g, !.error = "",
                   !.installs = @ \cup {<<g, p.effect>>}]

\* ConfigLoader.loadFromString settles for run g
PvSystemLoaded(g, ok) ==
    /\ g \in 1..pv.effect
    /\ pv.pc[g] = "system"
    /\ pv' = AfterLoad(pv, g, ok)
    /\ LET installed == AfterLoad(pv, g, ok).installs # pv.installs
           shouldPlay == Truthy(Get(Get(pv.configs[g], "system"), "autoStart"))
                             \/ store.ui.previewState = "playing"
       IN store' = IF installed /\ shouldPlay /\ store.ui.previewState # "playing"
                   THEN setPreviewState(store, "playing")
                   ELSE store
    /\ handler' = Ran("rebuild", <<"ConfigLoader.loadFromString">>)
    /\ toast' = IF ~ok /\ g \notin pv.cancelled
                THEN [kind |-> "error", title |-> "Failed to create particle system",
                      description |-> ""]
                ELSE NoToast

\* ------------------------------------------------------------------------
\* Export of the store's document and import of the exported file
\* ------------------------------------------------------------------------

\* file: the text handleExport last downloaded at the current canvas size
\* (<<>>: none); emitters: the emitters of the store at that export;
\* reimported: the last step imported that file; imports: the number of
\* imports so far
VARIABLE rt

\* most imports in a run
MaxImports == 3

RtIdle == [file |-> <<>>, emitters |-> <<>>, reimported |-> FALSE, imports |-> 0]

\* the default size, one with an odd width, and a larger one
RoundTripSizes == {<<800, 600>>, <<801, 600>>, <<900, 700>>}

\* a file a user may pick: a point emitter and a line emitter
RoundTripText ==
    dump(RawDoc(System(Num(150), Bool(FALSE)),
                Arr(<<PointEmitter(Pt(200, 101)), Line(Pt(300, 300), Pt(500, 300))>>)))

RtImportFile ==
    /\ rt.imports < MaxImports
    /\ handleImport(RoundTripText)
    /\ rt' = [RtIdle EXCEPT !.imports = rt.imports + 1]

RtResize(size) ==
    /\ Resize(size)
    /\ rt' = [RtIdle EXCEPT !.imports = rt.imports]

RtAddEmitter ==
    /\ AddEmitter(ViewportCentreEmitter)
    /\ rt' = [RtIdle EXCEPT !.imports = rt.imports]

\* Header.handleExport; the downloaded file is kept
RtExport ==
    /\ handleExport
    /\ rt' = [file |-> editorConfigToYAML(store.config), emitters |-> Emitters(store),
              reimported |-> FALSE, imports |-> rt.imports]

\* Header.handleImport of the file the last export downloaded
RtImportExported ==
    /\ rt.file # <<>>
    /\ rt.imports < MaxImports
    /\ handleImport(rt.file)
    /\ rt' = [rt EXCEPT !.reimported = TRUE, !.imports = rt.imports + 1]

\* ------------------------------------------------------------------------
\* Uploads in the asset library (AssetLibrary.handleFileSelect)
\* ------------------------------------------------------------------------

\* stage: "idle", "selected" (the file input holds files) or "done" (the
\* handler ran); files: the selected files; added: the files of the
\* textures handed to addTexture, in order; toasts: the toasts shown
VARIABLE up

\* largest number of files selected at once
MaxSelected == 3

UpIdle == [stage |-> "idle", files |-> <<>>, added |-> <<>>, toasts |-> <<>>]

\* 5 * 1024 * 1024
MaxTextureBytes == 5 * 1024 * 1024

ImagePng == <<"i", "m", "a", "g", "e", "/", "p">>
TextPlain == <<"t", "e", "x", "t", "/", "p">>

\* A File object with its MIME type and its size in bytes
TypedFile(id, name, type, size) == [id |-> id, name |-> name, type |-> type, size |-> size]

\* Files that can be selected: frames 1, 2 and 3 of c_ (an image at the
\* size limit, an image one byte over it, a text file) and three files
\* without a number (an image over the limit, a text file, a small image)
UploadPool ==
    {TypedFile(1, <<"c", "_", "1", ".", "p">>, ImagePng, MaxTextureBytes),
     TypedFile(2, <<"c", "_", "2", ".", "p">>, ImagePng, MaxTextureBytes + 1),
     TypedFile(3, <<"c", "_", "3", ".", "p">>, TextPlain, 10),
     TypedFile(4, <<"x", ".", "p">>, ImagePng, MaxTextureBytes + 1),
     TypedFile(5, <<"y", ".", "p">>, TextPlain, 10),
     TypedFile(6, <<"z", ".", "p">>, ImagePng, 10)}

RECURSIVE Selections(_)
Selections(n) ==
    IF n = 0 THEN {<<>>}
    ELSE LET shorter == Selections(n - 1)
         IN shorter \cup
            UNION {{Append(files, file) :
                       file \in {f \in UploadPool : \A i \in 1..Len(files) : files[i] # f}} :
                   files \in {l \in shorter : Len(l) = n - 1}}

\* the file lists the input can hold
UploadSelections == Selections(MaxSelected)

\* String.prototype.startsWith
startsWith(string, searchString) ==
    /\ Len(string) >= Len(searchString)
    /\ SubSeq(string, 1, Len(searchString)) = searchString

UpToast(kind, text, name) == [kind |-> kind, text |-> text, name |-> name]

\* the synchronous part of addSequence, after the asset was persisted
addSequence(st, sequence) ==
    [st EXCEPT !.assets = [st.assets EXCEPT !.sequences = @ \cup {sequence}],
               !.ui = [st.ui EXCEPT !.hasUnsavedChanges = TRUE]]

\* createSequenceAsset: the frames are the textures made of the
\* sequence's files
createSequenceAsset(sequence, textureFiles) ==
    [name |-> sequence.baseName, pattern |-> sequence.pattern,
     frames |-> SelectSeq(sequence.files,
                          LAMBDA file : \E i \in 1..Len(textureFiles) :
                                            textureFiles[i].id = file.id)]

\* lines 116-151 for one file: r holds the store, the files added and
\* the toasts so far; unreadable are the files readFileAsDataURL or
\* getImageDimensions rejects
IndividualFile(r, file, unreadable) ==
    IF ~startsWith(file.type, <<"i", "m", "a", "g", "e", "/">>)
    THEN [r EXCEPT !.toasts = Append(@, UpToast("error", "is not an image file", file.name))]
    ELSE IF file.size > MaxTextureBytes
    THEN [r EXCEPT !.toasts = Append(@, UpToast("error", "is too large (max 5MB)", file.name))]
    ELSE IF file.id \in unreadable
    THEN [r EXCEPT !.toasts = Append(@, UpToast("error", "Failed to load", file.name))]
    ELSE [r EXCEPT !.st = addTexture(r.st, file.id), !.added = Append(@, file)]

\* lines 160-181 for one frame of a sequence
SequenceFrame(r, file, unreadable) ==
    IF file.id \in unreadable THEN r
    ELSE [r EXCEPT !.st = addTexture(r.st, file.id), !.added = Append(@, file)]

RECURSIVE IndividualFiles(_, _, _)
IndividualFiles(r, files, unreadable) ==
    IF Len(files) = 0 THEN r
    ELSE IndividualFiles(IndividualFile(r, Head(files), unreadable), Tail(files), unreadable)

RECURSIVE SequenceFrames(_, _, _)
SequenceFrames(r, files, unreadable) ==
    IF Len(files) = 0 THEN r
    ELSE SequenceFrames(SequenceFrame(r, Head(files), unreadable), Tail(files), unreadable)

\* lines 157-197 for one detected sequence
OneSequence(r, sequence, unreadable) ==
    LET framed == SequenceFrames([r EXCEPT !.added = <<>>], sequence.files, unreadable)
        validation == validateSequence(sequence)
    IN [st |-> addSequence(framed.st, createSequenceAsset(sequence, framed.added)),
        added |-> r.added \o framed.added,
        toasts |-> framed.toasts
                   \o [i \in 1..Len(validation.warnings) |->
                          UpToast("warning", validation.warnings[i].text, sequence.baseName)]
                   \o <<UpToast("success", "Detected sequence", sequence.baseName)>>]

RECURSIVE AllSequences(_, _, _)
AllSequences(r, sequences, unreadable) ==
    IF Len(sequences) = 0 THEN r
    ELSE AllSequences(OneSequence(r, Head(sequences), unreadable), Tail(sequences), unreadable)

\* handleFileSelect after its call of autoDetectSequences
AfterDetection(st, detected, unreadable) ==
    AllSequences(
        IF Len(detected.individualFiles) > 0
        THEN [IndividualFiles([st |-> st, added |-> <<>>, toasts |-> <<>>],
                              detected.individualFiles, unreadable)
                 EXCEPT !.toasts = Append(@, UpToast("success", "Added texture(s)", <<>>))]
        ELSE [st |-> st, added |-> <<>>, toasts |-> <<>>],
        detected.sequences, unreadable)

\* handleFileSelect on the files of the input
handleFileSelect(st, files, unreadable) ==
    IF Len(files) = 0 THEN [st |-> st, added |-> <<>>, toasts |-> <<>>]
    ELSE AfterDetection(st, autoDetectSequences(files), unreadable)

\* the user picks files in the file input
UpSelect(files) ==
    /\ up.stage = "idle"
    /\ up' = [up EXCEPT !.stage = "selected", !.files = files]
    /\ UNCHANGED <<store, toast, handler>>

\* the change event of the file input
UpHandleFileSelect(unreadable) ==
    /\ up.stage = "selected"
    /\ LET r == handleFileSelect(store, up.files, unreadable)
       IN /\ store' = r.st
          /\ up' = [up EXCEPT !.stage = "done", !.added = r.added, !.toasts = r.toasts]
          /\ toast' = IF Len(r.toasts) = 0 THEN NoToast
                      ELSE [kind |-> r.toasts[Len(r.toasts)].kind,
                            title |-> r.toasts[Len(r.toasts)].text, description |-> ""]
    /\ handler' = Ran("handleFileSelect", <<"autoDetectSequences">>)

vars == <<store, toast, handler, xf, vd, rc, hp, ly, sq, ld, hs, pv, rt, up>>

StoreInit ==
    /\ store = useEditorStore
    /\ toast = NoToast
    /\ handler = Ran("none", <<>>)

Init == StoreInit /\ xf = XfIdle /\ vd = VdIdle /\ rc = RcIdle /\ hp = HpIdle /\ ly = LyIdle /\ sq = SqIdle /\ ld = LdIdle /\ hs = HsIdle /\ pv = PvIdle /\ rt = RtIdle /\ up = UpIdle

Next ==
    \/ \E t \in ImportTexts : handleImport(t) /\ UNCHANGED <<xf, vd, rc, hp, ly, sq, ld, hs, pv, rt, up>>
    \/ \E t \in ImportTexts, c \in BOOLEAN : handleLoad(t, c) /\ UNCHANGED <<xf, vd, rc, hp, ly, sq, ld, hs, pv, rt, up>>
    \/ \E c \in BOOLEAN : handleNew(c) /\ UNCHANGED <<xf, vd, rc, hp, ly, sq, ld, hs, pv, rt, up>>
    \/ handleExport /\ UNCHANGED <<xf, vd, rc, hp, ly, sq, ld, hs, pv, rt, up>>
    \/ \E size \in StoreCanvasSizes : Resize(size) /\ UNCHANGED <<xf, vd, rc, hp, ly, sq, ld, hs, pv, rt, up>>
    \/ AddEmitter(ViewportCentreEmitter) /\ UNCHANGED <<xf, vd, rc, hp, ly, sq, ld, hs, pv, rt, up>>
    \/ AddTexture("tex") /\ UNCHANGED <<xf, vd, rc, hp, ly, sq, ld, hs, pv, rt, up>>

Spec == Init /\ [][Next]_vars

InitTransform == StoreInit /\ XfInit /\ vd = VdIdle /\ rc = RcIdle /\ hp = HpIdle /\ ly = LyIdle /\ sq = SqIdle /\ ld = LdIdle /\ hs = HsIdle /\ pv = PvIdle /\ rt = RtIdle /\ up = UpIdle

NextTransform ==
    \/ XfImport /\ UNCHANGED <<store, toast, handler, vd, rc, hp, ly, sq, ld, hs, pv, rt, up>>
    \/ XfExport /\ UNCHANGED <<store, toast, handler, vd, rc, hp, ly, sq, ld, hs, pv, rt, up>>
    \/ XfReimport /\ UNCHANGED <<store, toast, handler, vd, rc, hp, ly, sq, ld, hs, pv, rt, up>>

SpecTransform == InitTransform /\ [][NextTransform]_vars

InitValidate == StoreInit /\ xf = XfIdle /\ VdInit /\ rc = RcIdle /\ hp = HpIdle /\ ly = LyIdle /\ sq = SqIdle /\ ld = LdIdle /\ hs = HsIdle /\ pv = PvIdle /\ rt = RtIdle /\ up = UpIdle

NextValidate == VdValidate /\ UNCHANGED <<store, toast, handler, xf, rc, hp, ly, sq, ld, hs, pv, rt, up>>

SpecValidate == InitValidate /\ [][NextValidate]_vars

InitRecentre == StoreInit /\ xf = XfIdle /\ vd = VdIdle /\ RcInit /\ hp = HpIdle /\ ly = LyIdle /\ sq = SqIdle /\ ld = LdIdle /\ hs = HsIdle /\ pv = PvIdle /\ rt = RtIdle /\ up = UpIdle

NextRecentre == RcRecentre /\ UNCHANGED <<store, toast, handler, xf, vd, hp, ly, sq, ld, hs, pv, rt, up>>

SpecRecentre == InitRecentre /\ [][NextRecentre]_vars

InitHeap == StoreInit /\ xf = XfIdle /\ vd = VdIdle /\ rc = RcIdle /\ HpInit /\ ly = LyIdle /\ sq = SqIdle /\ ld = LdIdle /\ hs = HsIdle /\ pv = PvIdle /\ rt = RtIdle /\ up = UpIdle

NextHeap ==
    \/ HpRecentre /\ UNCHANGED <<store, toast, handler, xf, vd, rc, ly, sq, ld, hs, pv, rt, up>>
    \/ HpExport /\ UNCHANGED <<store, toast, handler, xf, vd, rc, ly, sq, ld, hs, pv, rt, up>>
    \/ HpImport /\ UNCHANGED <<store, toast, handler, xf, vd, rc, ly, sq, ld, hs, pv, rt, up>>

SpecHeap == InitHeap /\ [][NextHeap]_vars

InitLayout == StoreInit /\ xf = XfIdle /\ vd = VdIdle /\ rc = RcIdle /\ hp = HpIdle /\ ly = LyIdle /\ sq = SqIdle /\ ld = LdIdle /\ hs = HsIdle /\ pv = PvIdle /\ rt = RtIdle /\ up = UpIdle

NextLayout ==
    \/ \E t \in LayoutTexts : LyImport(t) /\ UNCHANGED <<xf, vd, rc, hp, sq, ld, hs, pv, rt, up>>
    \/ \E parsed \in TypedCoordinates : LyEditPosition(parsed) /\ UNCHANGED <<xf, vd, rc, hp, sq, ld, hs, pv, rt, up>>
    \/ \E size \in StoreCanvasSizes : LyResize(size) /\ UNCHANGED <<xf, vd, rc, hp, sq, ld, hs, pv, rt, up>>

SpecLayout == InitLayout /\ [][NextLayout]_vars

InitSequence == StoreInit /\ xf = XfIdle /\ vd = VdIdle /\ rc = RcIdle /\ hp = HpIdle /\ ly = LyIdle /\ SqInit /\ ld = LdIdle /\ hs = HsIdle /\ pv = PvIdle /\ rt = RtIdle /\ up = UpIdle

NextSequence ==
    \/ SqDetect /\ UNCHANGED <<store, toast, handler, xf, vd, rc, hp, ly, ld, hs, pv, rt, up>>
    \/ SqAutoDetect /\ UNCHANGED <<store, toast, handler, xf, vd, rc, hp, ly, ld, hs, pv, rt, up>>
    \/ SqValidate /\ UNCHANGED <<store, toast, handler, xf, vd, rc, hp, ly, ld, hs, pv, rt, up>>

SpecSequence == InitSequence /\ [][NextSequence]_vars

InitLoad == StoreInit /\ xf = XfIdle /\ vd = VdIdle /\ rc = RcIdle /\ hp = HpIdle /\ ly = LyIdle /\ sq = SqIdle /\ ld = LdIdle /\ hs = HsIdle /\ pv = PvIdle /\ rt = RtIdle /\ up = UpIdle

NextLoad ==
    \/ \E cfg \in LoadConfigs, newAssets \in LoadAssets :
           LdLoad(cfg, newAssets) /\ UNCHANGED <<xf, vd, rc, hp, ly, sq, hs, pv, rt, up>>
    \/ \E size \in StoreCanvasSizes : LdResize(size) /\ UNCHANGED <<xf, vd, rc, hp, ly, sq, hs, pv, rt, up>>
    \/ LdAddEmitter /\ UNCHANGED <<xf, vd, rc, hp, ly, sq, hs, pv, rt, up>>
    \/ LdAddTexture /\ UNCHANGED <<xf, vd, rc, hp, ly, sq, hs, pv, rt, up>>
    \/ LdToggleVisibility /\ UNCHANGED <<xf, vd, rc, hp, ly, sq, hs, pv, rt, up>>
    \/ LdPlay /\ UNCHANGED <<xf, vd, rc, hp, ly, sq, hs, pv, rt, up>>

SpecLoad == InitLoad /\ [][NextLoad]_vars


InitHistoryCap == StoreInit /\ xf = XfIdle /\ vd = VdIdle /\ rc = RcIdle /\ hp = HpIdle /\ ly = LyIdle /\ sq = SqIdle /\ ld = LdIdle /\ hs = HsIdle /\ pv = PvIdle /\ rt = RtIdle /\ up = UpIdle

NextHistoryCap ==
    \/ HcPushHistory /\ UNCHANGED <<xf, vd, rc, hp, ly, sq, ld, pv, rt, up>>
    \/ HcUndo /\ UNCHANGED <<xf, vd, rc, hp, ly, sq, ld, pv, rt, up>>
    \/ HcRedo /\ UNCHANGED <<xf, vd, rc, hp, ly, sq, ld, pv, rt, up>>
    \/ HcResetToDefault /\ UNCHANGED <<xf, vd, rc, hp, ly, sq, ld, pv, rt, up>>
    \/ HcLoadConfig /\ UNCHANGED <<xf, vd, rc, hp, ly, sq, ld, pv, rt, up>>

SpecHistoryCap == InitHistoryCap /\ [][NextHistoryCap]_vars

InitVisibility == StoreInit /\ xf = XfIdle /\ vd = VdIdle /\ rc = RcIdle /\ hp = HpIdle /\ ly = LyIdle /\ sq = SqIdle /\ ld = LdIdle /\ hs = HsIdle /\ pv = PvIdle /\ rt = RtIdle /\ up = UpIdle

NextVisibility ==
    \/ \E e \in HistoryEmitters : EmAddEmitter(e) /\ UNCHANGED <<xf, vd, rc, hp, ly, sq, ld, pv, rt, up>>
    \/ \E i \in 0..(MaxListed - 1) : EmRemoveEmitter(i) /\ UNCHANGED <<xf, vd, rc, hp, ly, sq, ld, pv, rt, up>>
    \/ \E i \in 0..(MaxListed - 1) : EmDuplicateEmitter(i) /\ UNCHANGED <<xf, vd, rc, hp, ly, sq, ld, pv, rt, up>>
    \/ \E s, e \in 0..(MaxListed - 1) : EmReorderEmitters(s, e) /\ UNCHANGED <<xf, vd, rc, hp, ly, sq, ld, pv, rt, up>>
    \/ \E i \in 0..(MaxListed - 1) : EmToggleEmitterVisibility(i) /\ UNCHANGED <<xf, vd, rc, hp, ly, sq, ld, pv, rt, up>>

SpecVisibility == InitVisibility /\ [][NextVisibility]_vars

InitSelection == StoreInit /\ xf = XfIdle /\ vd = VdIdle /\ rc = RcIdle /\ hp = HpIdle /\ ly = LyIdle /\ sq = SqIdle /\ ld = LdIdle /\ hs = HsIdle /\ pv = PvIdle /\ rt = RtIdle /\ up = UpIdle

NextSelection ==
    \/ SlPushHistory /\ UNCHANGED <<xf, vd, rc, hp, ly, sq, ld, pv, rt, up>>
    \/ SlAddEmitter /\ UNCHANGED <<xf, vd, rc, hp, ly, sq, ld, pv, rt, up>>
    \/ \E i \in 0..(MaxStoreEmitters - 1) : SlRemoveEmitter(i) /\ UNCHANGED <<xf, vd, rc, hp, ly, sq, ld, pv, rt, up>>
    \/ \E i \in 0..(MaxStoreEmitters - 1) : SlDuplicateEmitter(i) /\ UNCHANGED <<xf, vd, rc, hp, ly, sq, ld, pv, rt, up>>
    \/ \E s, e \in 0..(MaxStoreEmitters - 1) : SlReorderEmitters(s, e) /\ UNCHANGED <<xf, vd, rc, hp, ly, sq, ld, pv, rt, up>>
    \/ \E i \in -1..(MaxStoreEmitters - 1) : SlSelectEmitter(i) /\ UNCHANGED <<xf, vd, rc, hp, ly, sq, ld, pv, rt, up>>
    \/ HcUndo /\ UNCHANGED <<xf, vd, rc, hp, ly, sq, ld, pv, rt, up>>
    \/ HcRedo /\ UNCHANGED <<xf, vd, rc, hp, ly, sq, ld, pv, rt, up>>
    \/ \E cfg \in SelectionConfigs : SlLoadConfig(cfg) /\ UNCHANGED <<xf, vd, rc, hp, ly, sq, ld, pv, rt, up>>
    \/ HcResetToDefault /\ UNCHANGED <<xf, vd, rc, hp, ly, sq, ld, pv, rt, up>>

SpecSelection == InitSelection /\ [][NextSelection]_vars

InitPreview == StoreInit /\ xf = XfIdle /\ vd = VdIdle /\ rc = RcIdle /\ hp = HpIdle /\ ly = LyIdle /\ sq = SqIdle /\ ld = LdIdle /\ hs = HsIdle /\ pv = PvMounted /\ rt = RtIdle /\ up = UpIdle

NextPreview ==
    \/ PvInitApp /\ UNCHANGED <<xf, vd, rc, hp, ly, sq, ld, hs, rt, up>>
    \/ \E cfg \in PreviewConfigs : PvConfigChange(cfg) /\ UNCHANGED <<xf, vd, rc, hp, ly, sq, ld, hs, rt, up>>
    \/ \E g \in 1..MaxEffects : PvTimerFire(g) /\ UNCHANGED <<xf, vd, rc, hp, ly, sq, ld, hs, rt, up>>
    \/ \E g \in 1..MaxEffects : PvTexturesLoaded(g) /\ UNCHANGED <<xf, vd, rc, hp, ly, sq, ld, hs, rt, up>>
    \/ \E g \in 1..MaxEffects, ok \in BOOLEAN : PvSystemLoaded(g, ok) /\ UNCHANGED <<xf, vd, rc, hp, ly, sq, ld, hs, rt, up>>

SpecPreview == InitPreview /\ [][NextPreview]_vars

InitRoundTrip == StoreInit /\ xf = XfIdle /\ vd = VdIdle /\ rc = RcIdle /\ hp = HpIdle /\ ly = LyIdle /\ sq = SqIdle /\ ld = LdIdle /\ hs = HsIdle /\ pv = PvIdle /\ rt = RtIdle /\ up = UpIdle

NextRoundTrip ==
    \/ RtImportFile /\ UNCHANGED <<xf, vd, rc, hp, ly, sq, ld, hs, pv, up>>
    \/ \E size \in RoundTripSizes : RtResize(size) /\ UNCHANGED <<xf, vd, rc, hp, ly, sq, ld, hs, pv, up>>
    \/ RtAddEmitter /\ UNCHANGED <<xf, vd, rc, hp, ly, sq, ld, hs, pv, up>>
    \/ RtExport /\ UNCHANGED <<xf, vd, rc, hp, ly, sq, ld, hs, pv, up>>
    \/ RtImportExported /\ UNCHANGED <<xf, vd, rc, hp, ly, sq, ld, hs, pv, up>>

SpecRoundTrip == InitRoundTrip /\ [][NextRoundTrip]_vars

InitUpload == StoreInit /\ xf = XfIdle /\ vd = VdIdle /\ rc = RcIdle /\ hp = HpIdle /\ ly = LyIdle /\ sq = SqIdle /\ ld = LdIdle /\ hs = HsIdle /\ pv = PvIdle /\ rt = RtIdle /\ up = UpIdle

NextUpload ==
    \/ \E files \in UploadSelections : UpSelect(files) /\ UNCHANGED <<xf, vd, rc, hp, ly, sq, ld, hs, pv, rt>>
    \/ \E unreadable \in SUBSET {up.files[i].id : i \in 1..Len(up.files)} : UpHandleFileSelect(unreadable) /\ UNCHANGED <<xf, vd, rc, hp, ly, sq, ld, hs, pv, rt>>

SpecUpload == InitUpload /\ [][NextUpload]_vars

InitHistory == StoreInit /\ xf = XfIdle /\ vd = VdIdle /\ rc = RcIdle /\ hp = HpIdle /\ ly = LyIdle /\ sq = SqIdle /\ ld = LdIdle /\ hs = HsIdle /\ pv = PvIdle /\ rt = RtIdle /\ up = UpIdle

NextHistory ==
    \/ HsPushHistory /\ UNCHANGED <<xf, vd, rc, hp, ly, sq, ld, pv, rt, up>>
    \/ \E e \in HistoryEmitters : HsAddEmitter(e) /\ UNCHANGED <<xf, vd, rc, hp, ly, sq, ld, pv, rt, up>>
    \/ \E i \in 0..(MaxStoreEmitters - 1) : HsRemoveEmitter(i) /\ UNCHANGED <<xf, vd, rc, hp, ly, sq, ld, pv, rt, up>>
    \/ \E i \in -1..(MaxStoreEmitters - 1) : HsSelectEmitter(i) /\ UNCHANGED <<xf, vd, rc, hp, ly, sq, ld, pv, rt, up>>
    \/ HsUndo /\ UNCHANGED <<xf, vd, rc, hp, ly, sq, ld, pv, rt, up>>
    \/ HsRedo /\ UNCHANGED <<xf, vd, rc, hp, ly, sq, ld, pv, rt, up>>

SpecHistory == InitHistory /\ [][NextHistory]_vars


\* ------------------------------------------------------------------------
\* Properties of the config transform
\* ------------------------------------------------------------------------

EmittersOf(config) == Get(config, "emitters").vals

\* C1: exporting the result of an import and importing that text again
\* gives a config structurally equal to the first one: same system values
\* and the same emitters, in the same order, with the same fields and values.
C1_RoundTrip ==
    xf.stage = "reimported" =>
        /\ ~xf.reimported.threw
        /\ xf.reimported.config = xf.imported.config

\* an import kept two emitters, one of them named by a numeral-like string,
\* with a non-default system block, and the cycle was completed
C1_Witness ==
    /\ xf.stage = "reimported"
    /\ Len(EmittersOf(xf.imported.config)) = 2
    /\ \E i \in 1..2 : Get(EmittersOf(xf.imported.config)[i], "name") = Str("12")
    /\ Get(Get(xf.imported.config, "system"), "autoStart") = Bool(FALSE)
    /\ Get(Get(xf.imported.config, "system"), "maxParticles") = Num(150)

\* the minimal shape check, as the import contract words it
PassesShapeCheck(e) ==
    /\ Get(e, "type").t = "string"
    /\ Get(Get(e, "position"), "x").t = "number"
    /\ Get(Get(e, "position"), "y").t = "number"
    /\ Get(Get(e, "particle"), "type").t = "string"
    /\ (Get(e, "type").s \notin {"burst", "triggered"}
            => Get(e, "emissionRate").t = "number")

\* C2: when the parsed emitters value is an array, the imported emitters
\* are exactly its entries that pass the shape check, in their original
\* order, and no error is raised for the entries that fail.
C2_ShapeFilter ==
    (/\ xf.stage = "imported"
     /\ load(xf.text).ok
     /\ Get(load(xf.text).v, "emitters").t = "array") =>
        /\ ~xf.imported.threw
        /\ EmittersOf(xf.imported.config)
               = SelectSeq(Get(load(xf.text).v, "emitters").vals, PassesShapeCheck)

\* a well-formed point emitter followed by a record without particle:
\* exactly the first one is imported
C2_Witness ==
    /\ xf.stage = "imported"
    /\ load(xf.text).ok
    /\ Get(load(xf.text).v, "emitters").t = "array"
    /\ Len(Get(load(xf.text).v, "emitters").vals) = 2
    /\ Get(Get(load(xf.text).v, "emitters").vals[1], "type") = Str("point")
    /\ ~HasKey(Get(load(xf.text).v, "emitters").vals[2], "particle")
    /\ Len(EmittersOf(xf.imported.config)) = 1


\* ------------------------------------------------------------------------
\* Properties of the import handlers
\* ------------------------------------------------------------------------

\* the step h called the function f
InCalls(h, f) == \E i \in 1..Len(h.calls) : h.calls[i] = f

\* the step h called f and, later, g
CalledBefore(h, f, g) ==
    \E i, j \in 1..Len(h.calls) : i < j /\ h.calls[i] = f /\ h.calls[j] = g

ImportHandlers == {"handleImport", "handleLoad"}

\* C3: when the text does not parse, yamlToEditorConfig raises an error
\* carrying the parser's message, the import (file import or example load)
\* never calls loadConfig, and the store (config, assets, ui, history) is
\* exactly what it was before the attempt.
C3_SyntaxErrorFatal ==
    [][\A t \in ImportTexts :
          (/\ ~load(t).ok
           /\ \/ handleImport(t)
              \/ \E c \in BOOLEAN : handleLoad(t, c)) =>
             /\ yamlToEditorConfig(t).threw
             /\ yamlToEditorConfig(t).message = "Failed to parse YAML: " \o load(t).msg
             /\ ~InCalls(handler', "loadConfig")
             /\ store' = store
             /\ InCalls(handler', "yamlToEditorConfig") =>
                    /\ toast'.kind = "error"
                    /\ toast'.description = yamlToEditorConfig(t).message]_vars

\* an import of a text with a syntax error was attempted on a store holding
\* emitters, a texture and unsaved changes, and ended in the error toast
C3_Witness ==
    /\ handler.name \in ImportHandlers
    /\ handler.calls[Len(handler.calls)] = "toast.error"
    /\ toast.kind = "error"
    /\ \E t \in ImportTexts : ~load(t).ok /\ toast.description = yamlToEditorConfig(t).message
    /\ Len(Emitters(store)) > 0
    /\ store.assets.textures # {}
    /\ store.ui.hasUnsavedChanges

\* C4: on every import path the validator is run on the parsed document
\* before loadConfig installs it, and an import counts as succeeded only
\* when the validator found the document valid.
C4_ValidatorGatesImport ==
    (handler.name \in ImportHandlers /\ InCalls(handler, "loadConfig")) =>
        /\ CalledBefore(handler, "yamlToEditorConfig", "validateEditorConfig")
        /\ CalledBefore(handler, "validateEditorConfig", "loadConfig")
        /\ toast.kind = "success" => validateEditorConfig(store.config).valid


\* ------------------------------------------------------------------------
\* Properties of the validator
\* ------------------------------------------------------------------------

\* number of entries of the list errors equal to e
Count(errors, e) == Cardinality({i \in 1..Len(errors) : errors[i] = e})

ValidatedEmitters == Get(vd.doc, "emitters").vals

IsType(emitter, name) == Get(emitter, "type") = Str(name)

NotANumber(v) == v.t # "number"

\* the emissionRate rule: required unless the type is burst or triggered,
\* and then a number that is not negative
BreaksEmissionRate(emitter) ==
    /\ ~IsType(emitter, "burst") /\ ~IsType(emitter, "triggered")
    /\ NotANumber(Get(emitter, "emissionRate")) \/ Get(emitter, "emissionRate").n < 0

\* the burstCount rule: a burst emitter needs a number that is at least 1
BreaksBurstCount(emitter) ==
    /\ IsType(emitter, "burst")
    /\ NotANumber(Get(emitter, "burstCount")) \/ Get(emitter, "burstCount").n < 2

EmitterRules == {"type", "position", "emissionRate", "burstCount", "particle"}

Breaks(emitter, rule) ==
    CASE rule = "type" -> Get(emitter, "type") \in {Undef, Null, Str("")}
      [] rule = "position" ->
            \/ NotANumber(Get(Get(emitter, "position"), "x"))
            \/ NotANumber(Get(Get(emitter, "position"), "y"))
      [] rule = "emissionRate" -> BreaksEmissionRate(emitter)
      [] rule = "burstCount" -> BreaksBurstCount(emitter)
      [] rule = "particle" -> Get(emitter, "particle") \in {Undef, Null}

RuleMessage(rule) ==
    CASE rule = "type" -> "Missing type"
      [] rule = "position" -> "Invalid position"
      [] rule = "emissionRate" -> "Invalid emissionRate"
      [] rule = "burstCount" -> "burstCount must be a number >= 1"
      [] rule = "particle" -> "Missing particle configuration"

\* the entry reporting that the emitter at the 0-based index broke the rule
RuleEntry(index, rule) == "Emitter " \o ToString(index) \o ": " \o RuleMessage(rule)

\* C5: for a document whose system is present and whose emitters is an
\* array, errors holds one entry for every (emitter index, violated rule)
\* pair among the rules type, position, emissionRate, burstCount and
\* particle, whatever else failed, and valid is true exactly when errors is
\* empty.
C5_ReportsEveryDefect ==
    (/\ vd.stage = "validated"
     /\ Get(vd.doc, "system").t = "object"
     /\ IsArray(Get(vd.doc, "emitters"))) =>
        /\ ~vd.result.threw
        /\ \A i \in 1..Len(ValidatedEmitters), rule \in EmitterRules :
               Breaks(ValidatedEmitters[i], rule) =>
                   Count(vd.result.errors, RuleEntry(i - 1, rule)) = 1
        /\ vd.result.valid <=> (vd.result.errors = <<>>)

\* C6: for every input document, malformed ones included,
\* validateEditorConfig returns a {valid, errors} value instead of raising.
C6_NeverThrows ==
    vd.stage = "validated" => ~vd.result.threw

\* C7: an emissionRate error is reported for an emitter exactly when its
\* type is neither burst nor triggered and emissionRate is not a number or
\* is negative; a burstCount error is reported exactly when its type is
\* burst and burstCount is not a number or is below 1.
C7_TypeDependentEmission ==
    (vd.stage = "validated" /\ IsArray(Get(vd.doc, "emitters"))) =>
        \A i \in 1..Len(ValidatedEmitters) :
            /\ Count(vd.result.errors, RuleEntry(i - 1, "emissionRate")) > 0
                   <=> BreaksEmissionRate(ValidatedEmitters[i])
            /\ Count(vd.result.errors, RuleEntry(i - 1, "burstCount")) > 0
                   <=> BreaksBurstCount(ValidatedEmitters[i])


\* ------------------------------------------------------------------------
\* Properties of the canvas-resize centering
\* ------------------------------------------------------------------------

\* dx = newW/2 - oldW/2 and dy = newH/2 - oldH/2, counted in halves
DeltaX(old, new) == new[1] - old[1]

DeltaY(old, new) == new[2] - old[2]

\* q is the point p moved by (dx, dy) halves
Translated(p, q, dx, dy) ==
    /\ Get(q, "x") = Halves(Get(p, "x").n + dx)
    /\ Get(q, "y") = Halves(Get(p, "y").n + dy)

\* the value is a well-formed {x, y}
IsPoint(v) == v.t = "object" /\ HasKey(v, "x") /\ HasKey(v, "y")

\* every element of the array to is the element of from at the same place,
\* moved by (dx, dy)
AllTranslated(from, to, dx, dy) ==
    /\ IsArray(to)
    /\ Len(to.vals) = Len(from.vals)
    /\ \A j \in 1..Len(from.vals) : Translated(from.vals[j], to.vals[j], dx, dy)

OwnAbsoluteFields(emitter) ==
    IF IsType(emitter, "line") THEN {"start", "end"}
    ELSE IF IsType(emitter, "path") THEN {"path", "points"}
    ELSE {}

\* C9: for every emitter, every field other than position and the fields
\* the absolute-coordinate table lists for its own type has the same value
\* in the output as in the input; polygon vertices, area width/height and
\* circle radius are unchanged, and start, end, path or points on an
\* emitter of another type are not shifted.
C9_Frame ==
    rc.stage = "returned" =>
        /\ Len(rc.result.emitters) = Len(rc.emitters)
        /\ \A i \in 1..Len(rc.emitters) :
               LET in == rc.emitters[i]
                   out == rc.result.emitters[i]
               IN /\ out.keys = in.keys
                  /\ \A j \in 1..Len(in.keys) :
                         in.keys[j] \notin ({"position"} \cup OwnAbsoluteFields(in)) =>
                             out.vals[j] = in.vals[j]

\* a resize that moves positions was applied to a polygon emitter and to a
\* burst emitter that carries start, end, path and points fields
C9_Witness ==
    /\ rc.stage = "returned"
    /\ ~rc.result.same
    /\ Len(rc.emitters) = 2
    /\ IsType(rc.emitters[1], "polygon")
    /\ IsArray(Get(rc.emitters[1], "vertices"))
    /\ IsType(rc.emitters[2], "burst")
    /\ IsPoint(Get(rc.emitters[2], "start"))
    /\ IsArray(Get(rc.emitters[2], "points"))
    /\ Get(rc.result.emitters[2], "position") # Get(rc.emitters[2], "position")

HeapAgreesWithValues ==
    hp.stage = "returned" =>
        CASE hp.fn = "recentreEmittersOnResize" ->
                 Deref(hp.after, hp.result).vals
                     = recentreEmittersOnResize(Deref(hp.before, hp.arg).vals,
                                                DEFAULT_CANVAS_WIDTH, DEFAULT_CANVAS_HEIGHT,
                                                hp.new[1], hp.new[2]).emitters
          [] hp.fn = "editorConfigToYAML" ->
                 hp.yaml = editorConfigToYAML(Deref(hp.before, hp.arg))
          [] OTHER -> Deref(hp.after, hp.result) = yamlToEditorConfig(hp.text).config

\* C11: after recentreEmittersOnResize, editorConfigToYAML or
\* yamlToEditorConfig returns, the input emitter list, every input emitter
\* and every nested object of it hold exactly the values they held before
\* the call: every object that existed at the call is unchanged.
C11_NoMutation ==
    hp.stage = "returned" =>
        /\ Len(hp.after) >= Len(hp.before)
        /\ \A a \in 1..Len(hp.before) : hp.after[a] = hp.before[a]
        /\ Deref(hp.after, hp.arg) = Deref(hp.before, hp.arg)

\* recentreEmittersOnResize moved a line emitter and a path emitter, both
\* with nested points, and returned a new list
C11_Witness ==
    /\ hp.stage = "returned"
    /\ hp.fn = "recentreEmittersOnResize"
    /\ hp.result # hp.arg
    /\ Len(Deref(hp.before, hp.arg).vals) = 2
    /\ IsType(Deref(hp.before, hp.arg).vals[1], "line")
    /\ IsType(Deref(hp.before, hp.arg).vals[2], "path")
    /\ Deref(hp.after, hp.result) # Deref(hp.before, hp.arg)


\* ------------------------------------------------------------------------
\* Properties of resizes
\* ------------------------------------------------------------------------

\* a + b as real numbers (no rounding)
ExactAdd(a, b) == FromSigned(SignedAdd(Signed(a), Signed(b)))

\* the point now has, from the centre of the canvas it is on now, the
\* offset the point then had from the centre of the canvas then
SameOffset(then, now) ==
    /\ Get(now, "x") = ExactAdd(Get(then, "x"),
                                Halves(store.ui.canvasWidth - ly.size[1]))
    /\ Get(now, "y") = ExactAdd(Get(then, "y"),
                                Halves(store.ui.canvasHeight - ly.size[2]))

\* every absolute coordinate of the emitter satisfies the relation kept
LayoutKept(then, now, kept(_, _)) ==
    /\ kept(Get(then, "position"), Get(now, "position"))
    /\ IsType(then, "line") =>
           \A f \in {"start", "end"} :
               IsPoint(Get(then, f)) => kept(Get(then, f), Get(now, f))
    /\ IsType(then, "path") =>
           \A f \in {"path", "points"} :
               IsArray(Get(then, f)) =>
                   /\ IsArray(Get(now, f))
                   /\ Len(Get(now, f).vals) = Len(Get(then, f).vals)
                   /\ \A j \in 1..Len(Get(then, f).vals) :
                          kept(Get(then, f).vals[j], Get(now, f).vals[j])

\* both coordinates of the point are multiples of 1/2
OnHalfPixels(p) == Get(p, "x").vals = <<>> /\ Get(p, "y").vals = <<>>

SameOffsetOnHalfPixels(then, now) == OnHalfPixels(then) => SameOffset(then, now)

\* C12 (as stated): after any sequence of setCanvasDimensions calls, every
\* emitter's position, line start/end and path waypoint has the offset from
\* the centre of the current canvas that it had from the canvas centre
\* before the sequence; resizing away and back restores every coordinate
\* exactly.
C12_StaysCentred ==
    ly.resizes > 0 =>
        /\ Len(Emitters(store)) = Len(ly.origin)
        /\ \A i \in 1..Len(ly.origin) :
               LayoutKept(ly.origin[i], Emitters(store)[i], SameOffset)

\* C12 (amended): the offsets are kept exactly for the points whose
\* coordinates are multiples of half a pixel, for which every shift is an
\* exact double addition; other coordinates are kept only up to the
\* rounding of each shift.
C12_StaysCentredOnHalfPixels ==
    ly.resizes > 0 =>
        /\ Len(Emitters(store)) = Len(ly.origin)
        /\ \A i \in 1..Len(ly.origin) :
               LayoutKept(ly.origin[i], Emitters(store)[i], SameOffsetOnHalfPixels)

\* a point and a line emitter were resized away, through an odd width, and
\* back to the size they were imported at: every coordinate is restored
C12_Witness ==
    /\ ly.resizes = MaxResizes
    /\ handler.name = "resize"
    /\ handler.args[1] # ly.size[1]
    /\ <<store.ui.canvasWidth, store.ui.canvasHeight>> = ly.size
    /\ Len(ly.origin) = 2
    /\ IsType(ly.origin[2], "line")
    /\ \A i \in 1..2 : OnHalfPixels(Get(ly.origin[i], "position"))
    /\ Emitters(store) = ly.origin


\* ------------------------------------------------------------------------
\* Sequence detector properties
\* ------------------------------------------------------------------------

\* the sequence handed to validateSequence
Validated == sq.sequences[1]

HasWarning(text) ==
    \E i \in 1..Len(sq.validation.warnings) : sq.validation.warnings[i].text = text

\* C13: validateSequence returns valid = false exactly when the sequence
\* has fewer files than endFrame - startFrame + 1; a non-empty gaps list
\* adds the 'Missing frames' warning and by itself never makes the
\* sequence invalid.
C13_ValidUnlessShortfall ==
    sq.stage = "validated" =>
        /\ sq.validation.valid = FALSE
               <=> Len(Validated.files) < Validated.endFrame - Validated.startFrame + 1
        /\ Len(Validated.gaps) > 0 => HasWarning("Missing frames")

\* the (base, extension) pair of every file of an upload, <<>> standing
\* for a name that does not match the numbered pattern
Pairs(files) ==
    <<>> \o [i \in 1..Len(files) |->
                LET info == extractFrameInfo(files[i].name)
                IN IF info.isNull THEN <<>> ELSE <<info.base, info.extension>>]

\* the places of the files whose names match the numbered pattern
NumberedIn(pairs) == {i \in 1..Len(pairs) : pairs[i] # <<>>}

\* the places of the files sharing the pair of the file at place i
GroupIn(pairs, i) == {j \in NumberedIn(pairs) : pairs[j] = pairs[i]}

FirstOf(places) == CHOOSE i \in places : \A j \in places : i <= j

\* the file at place i leads the group that is to be selected: no group is
\* larger, and every other group of the same size starts later
LeadsSelected(pairs, i) ==
    /\ i \in NumberedIn(pairs)
    /\ i = FirstOf(GroupIn(pairs, i))
    /\ \A j \in NumberedIn(pairs) :
           /\ Cardinality(GroupIn(pairs, j)) <= Cardinality(GroupIn(pairs, i))
           /\ Cardinality(GroupIn(pairs, j)) = Cardinality(GroupIn(pairs, i))
              => i <= FirstOf(GroupIn(pairs, j))

\* the same for the upload at hand
Numbered == NumberedIn(Pairs(sq.files))

GroupAt(i) == GroupIn(Pairs(sq.files), i)

FileIds(files) == {files[i].id : i \in 1..Len(files)}

FrameOf(file) == extractFrameInfo(file.name).number

FrameNumbers(files) == {FrameOf(files[i]) : i \in 1..Len(files)}

\* C15: in every result of detectSequence the files are in ascending order
\* of frame number, startFrame and endFrame are the smallest and the
\* largest frame number of the group, and gaps lists in ascending order
\* exactly the integers strictly between them that no file of the group
\* has as its frame number.
C15_RangeAndGaps ==
    sq.stage = "detected" /\ Len(sq.sequences) = 1 =>
        LET sequence == sq.sequences[1]
            numbers == FrameNumbers(sequence.files)
        IN /\ \A i, j \in 1..Len(sequence.files) :
                  i < j => FrameOf(sequence.files[i]) <= FrameOf(sequence.files[j])
           /\ sequence.startFrame \in numbers
           /\ sequence.endFrame \in numbers
           /\ \A n \in numbers : sequence.startFrame <= n /\ n <= sequence.endFrame
           /\ \A i, j \in 1..Len(sequence.gaps) :
                  i < j => sequence.gaps[i] < sequence.gaps[j]
           /\ {sequence.gaps[i] : i \in 1..Len(sequence.gaps)}
                  = {n \in (sequence.startFrame + 1)..(sequence.endFrame - 1) :
                        n \notin numbers}

\* frames 10, 3 and 1 were uploaded in that order: they are returned as
\* 1, 3, 10 with the seven absent frames as gaps
C15_Witness ==
    /\ sq.stage = "detected"
    /\ Len(sq.sequences) = 1
    /\ Len(sq.files) = 3
    /\ FrameOf(sq.files[1]) = 10
    /\ FrameOf(sq.files[2]) = 3
    /\ FrameOf(sq.files[3]) = 1
    /\ sq.sequences[1].files = <<sq.files[3], sq.files[2], sq.files[1]>>
    /\ sq.sequences[1].gaps = <<2, 4, 5, 6, 7, 8, 9>>

\* the length of the digit string in a file's name
DigitsOf(file) == extractFrameInfo(file.name).padding

\* the places in files of the names whose digit string has the given length
WithDigits(files, length) == {i \in 1..Len(files) : DigitsOf(files[i]) = length}

\* the place of a character that occurs once in a string
PlaceOf(str, c) == CHOOSE i \in 1..Len(str) : str[i] = c

\* the digit string str shows number at the given width: zeros in front,
\* no digit dropped
ShowsPadded(str, number, width) ==
    /\ IsDigitRun(str)
    /\ parseInt(str) = number
    /\ Len(str) = IF Len(toString(number)) > width THEN Len(toString(number)) ELSE width

C17_Partition ==
    sq.stage = "split" =>
        LET taken == IF sq.sequences = <<>> THEN <<>> ELSE sq.sequences[1].files
        IN /\ Len(sq.sequences) <= 1
           /\ FileIds(taken) \cup FileIds(sq.individualFiles) = FileIds(sq.files)
           /\ FileIds(taken) \cap FileIds(sq.individualFiles) = {}
           /\ Len(taken) + Len(sq.individualFiles) = Len(sq.files)
           /\ sq.individualFiles
                  = SelectSeq(sq.files, LAMBDA file : file.id \in FileIds(sq.individualFiles))
           /\ sq.sequences = <<>> => sq.individualFiles = sq.files

\* three frames of one base were uploaded around two frames of another
\* and the smaller group came back as individual files, in upload order
C17_Witness ==
    /\ sq.stage = "split"
    /\ Len(sq.files) = 5
    /\ GroupAt(1) = {1, 3, 5}
    /\ GroupAt(2) = {2, 4}
    /\ Len(sq.sequences) = 1
    /\ FileIds(sq.sequences[1].files) = {sq.files[i].id : i \in {1, 3, 5}}
    /\ sq.individualFiles = <<sq.files[2], sq.files[4]>>


\* ------------------------------------------------------------------------
\* Properties of the system block on import
\* ------------------------------------------------------------------------

\* the values the text parses to (undefined where the document has none)
ParsedSystem == Get(load(xf.text).v, "system")

ParsedEmitters == Get(load(xf.text).v, "emitters")

\* C18: for every text that parses, yamlToEditorConfig returns without
\* error; system.maxParticles is the parsed value when that is a number,
\* whatever its size, and 1000 otherwise; system.autoStart is the parsed
\* value when that is a boolean and true otherwise; emitters is empty when
\* the parsed emitters value is not an array.
C18_PermissiveSystem ==
    xf.stage = "imported" /\ load(xf.text).ok =>
        /\ ~xf.imported.threw
        /\ Get(Get(xf.imported.config, "system"), "maxParticles")
               = IF Get(ParsedSystem, "maxParticles").t = "number"
                 THEN Get(ParsedSystem, "maxParticles") ELSE Num(1000)
        /\ Get(Get(xf.imported.config, "system"), "autoStart")
               = IF Get(ParsedSystem, "autoStart").t = "boolean"
                 THEN Get(ParsedSystem, "autoStart") ELSE Bool(TRUE)
        /\ ParsedEmitters.t # "array" => EmittersOf(xf.imported.config) = <<>>

\* a document asking for more particles than the limit, with a string for
\* autoStart and for emitters, was imported: the count is kept, autoStart
\* is true and there are no emitters
C18_Witness ==
    /\ xf.stage = "imported"
    /\ load(xf.text).ok
    /\ Get(ParsedSystem, "maxParticles") = Num(MAX_PARTICLES_LIMIT + 1)
    /\ Get(ParsedSystem, "autoStart") = Str("no")
    /\ ParsedEmitters = Str("none")
    /\ xf.imported.config
           = EditorConfig(Num(MAX_PARTICLES_LIMIT + 1), Bool(TRUE), <<>>)


\* ------------------------------------------------------------------------
\* Properties of the validator's particle rules
\* ------------------------------------------------------------------------

\* the values JavaScript treats as false among those of the documents
Falsy(v) == v \in {Undef, Null, Bool(FALSE), Num(0), Str("")}

\* how often errors reports the message for the emitter at the 0-based index
Reported(index, message) ==
    Count(vd.result.errors, "Emitter " \o ToString(index) \o ": " \o message)

\* C19: an emitter with no particle yields exactly one particle-related
\* error, the missing particle configuration, and neither sub-check error;
\* an emitter with a particle yields the missing-type error exactly when
\* particle.type is falsy and the missing-lifetime error exactly when
\* particle.lifetime is falsy (a lifetime of 0 included).
C19_ParticleRules ==
    (vd.stage = "validated" /\ IsArray(Get(vd.doc, "emitters"))) =>
        \A i \in 1..Len(ValidatedEmitters) :
            LET particle == Get(ValidatedEmitters[i], "particle")
            IN /\ particle \in {Undef, Null} =>
                      /\ Reported(i - 1, "Missing particle configuration") = 1
                      /\ Reported(i - 1, "Missing particle type") = 0
                      /\ Reported(i - 1, "Missing particle lifetime") = 0
               /\ particle.t = "object" =>
                      /\ Reported(i - 1, "Missing particle configuration") = 0
                      /\ Reported(i - 1, "Missing particle type")
                             = IF Falsy(Get(particle, "type")) THEN 1 ELSE 0
                      /\ Reported(i - 1, "Missing particle lifetime")
                             = IF Falsy(Get(particle, "lifetime")) THEN 1 ELSE 0


\* ------------------------------------------------------------------------
\* Properties of loadConfig
\* ------------------------------------------------------------------------

\* out is the emitter in moved by (dx, dy) halves: its position and the
\* absolute-coordinate fields of its type are translated and every other
\* field is the same
MovedOnce(in, out, dx, dy) ==
    /\ out.keys = in.keys
    /\ \A k \in {in.keys[j] : j \in 1..Len(in.keys)} :
           IF k = "position" \/ (k \in OwnAbsoluteFields(in) /\ IsPoint(Get(in, k)))
           THEN Translated(Get(in, k), Get(out, k), dx, dy)
           ELSE IF k \in OwnAbsoluteFields(in) /\ IsArray(Get(in, k))
           THEN AllTranslated(Get(in, k), Get(out, k), dx, dy)
           ELSE Get(out, k) = Get(in, k)

\* C20: after loadConfig(c, a) on a store whose canvas is W x H,
\* config.system equals c.system, config.emitters is c.emitters with every
\* emitter translated once by (W/2 - 400, H/2 - 300), assets equals a, the
\* canvas is still W x H, every other ui field has its default value, and
\* selectedEmitterIndex is 0 when c has emitters and null otherwise.
C20_LoadReplaces ==
    ld.called =>
        LET W == ld.before.canvasWidth
            H == ld.before.canvasHeight
            authored == EmittersOf(ld.config)
        IN /\ Get(store.config, "system") = Get(ld.config, "system")
           /\ Len(Emitters(store)) = Len(authored)
           /\ \A i \in 1..Len(authored) :
                  MovedOnce(authored[i], Emitters(store)[i], W - 2 * 400, H - 2 * 300)
           /\ store.assets = ld.assets
           /\ store.ui.canvasWidth = W
           /\ store.ui.canvasHeight = H
           /\ store.ui.selectedBehaviorIndex = NULL
           /\ store.ui.previewState = "stopped"
           /\ store.ui.hasUnsavedChanges = FALSE
           /\ store.ui.hiddenEmitterIndices = {}
           /\ store.ui.selectedEmitterIndex = IF Len(authored) > 0 THEN 0 ELSE NULL

\* a path emitter and a polygon were loaded, with a texture, into a playing
\* store with unsaved changes and a hidden emitter on a 1000 x 800 canvas
C20_Witness ==
    /\ ld.called
    /\ ld.before.canvasWidth = 1000
    /\ ld.before.canvasHeight = 800
    /\ ld.before.hasUnsavedChanges
    /\ ld.before.hiddenEmitterIndices = {0}
    /\ ld.before.previewState = "playing"
    /\ ld.assets.textures = {"tex"}
    /\ Len(EmittersOf(ld.config)) = 2
    /\ IsType(EmittersOf(ld.config)[1], "path")
    /\ Emitters(store)[1] # EmittersOf(ld.config)[1]
    /\ store.ui.hiddenEmitterIndices = {}

\* ------------------------------------------------------------------------
\* Properties of the snapshot history
\* ------------------------------------------------------------------------

\* the config and the selection of a state
Current(st) == createSnapshot(st)

\* after an undo that had a pushHistory to return to, config and selection
\* are those of that pushHistory
UndoRestoresPush ==
    hs.op = "undo" /\ hs.expected # NoEntry => Current(store) = hs.expected

\* after a redo that directly follows an undo, the config is the one from
\* before that undo
RedoRestoresConfig ==
    hs.op = "redo" /\ hs.before # NoEntry => store.config = hs.before.config

\* after a redo that directly follows an undo, the selection is the one
\* from before that undo
RedoRestoresSelection ==
    hs.op = "redo" /\ hs.before # NoEntry =>
        Current(store).selection = hs.before.selection

\* after k undos followed by k redos the config is the one the run started
\* from
RunReturns ==
    hs.run # NoRun /\ hs.run.undos = hs.run.redos => store.config = hs.run.start

\* after a redo that directly follows an undo, the selection is the one
\* from before that undo if selectEmitter had not been called since an
\* earlier undo or redo that no pushHistory followed
RedoRestoresKeptSelection ==
    hs.op = "redo" /\ hs.before # NoEntry /\ hs.kept =>
        Current(store).selection = hs.before.selection

\* C21 as stated: where every document mutation directly follows a
\* pushHistory, an undo restores the config and the selection of the most
\* recent pushHistory that is not undone, a redo directly after an undo
\* restores the config and the selection from before that undo, and k undos
\* followed by k redos return to the config the run started from
C21_UndoRedo ==
    /\ UndoRestoresPush
    /\ RedoRestoresConfig
    /\ RedoRestoresSelection
    /\ RunReturns

\* C21, amended: as stated, but a redo directly after an undo restores the
\* selection from before that undo only if selectEmitter had not been
\* called since an earlier undo or redo that no pushHistory followed
C21_UndoRedoKeptSelection ==
    /\ UndoRestoresPush
    /\ RedoRestoresConfig
    /\ RedoRestoresKeptSelection
    /\ RunReturns

\* two undos and two redos returned to a document of two emitters
C21_Witness ==
    /\ hs.op = "redo"
    /\ hs.run.undos = 2
    /\ hs.run.redos = 2
    /\ store.config = hs.run.start
    /\ Len(Emitters(store)) = 2

\* C23: in every state reached through pushHistory, undo, redo,
\* resetToDefault and loadConfig, history holds at most MAX_HISTORY entries
C23_HistoryCapped == Len(store.history) <= MAX_HISTORY

\* C24: right after pushHistory canRedo() is false, redo leaves config,
\* selection and historyIndex as they are, canUndo() is true, and
\* historyIndex is the index of the entry just pushed, the last of history
C24_PushDiscardsRedo ==
    hs.op = "pushHistory" =>
        /\ ~canRedo(store)
        /\ Current(redo(store)) = Current(store)
        /\ redo(store).historyIndex = store.historyIndex
        /\ canUndo(store)
        /\ store.historyIndex = Len(store.history) - 1
        /\ store.history[store.historyIndex + 1] =
               [Current(store) EXCEPT !.label = "edit"]

\* pushHistory was called where redo was possible
C24_Witness ==
    /\ hs.op = "pushHistory"
    /\ hs.hadRedo
    /\ Len(Emitters(store)) > 0

\* ------------------------------------------------------------------------
\* Properties of the emitter list edits
\* ------------------------------------------------------------------------

\* the index before removeEmitter(index) of the emitter at index k after it
RemovedOrigin(k, index) == IF k < index THEN k ELSE k + 1

\* the index before reorderEmitters(startIndex, endIndex) of the emitter at
\* index k after it: the moved emitter sits at endIndex, the others keep
\* their order in the remaining places
ReorderedOrigin(k, startIndex, endIndex) ==
    IF k = endIndex THEN startIndex
    ELSE LET place == IF k < endIndex THEN k ELSE k - 1
         IN IF place < startIndex THEN place ELSE place + 1

\* the index before the last removeEmitter or reorderEmitters call of the
\* emitter now at index k
Origin(k) ==
    IF hs.op = "removeEmitter" THEN RemovedOrigin(k, hs.args[1])
    ELSE ReorderedOrigin(k, hs.args[1], hs.args[2])

\* C25: after removeEmitter(i) or reorderEmitters(s, e) with indices in
\* range, every emitter still in the list is the one its previous index
\* held and is hidden exactly if it was hidden before, and every hidden
\* index is the index of an emitter of the list
C25_HiddenFollows ==
    hs.op \in {"removeEmitter", "reorderEmitters"} =>
        /\ Len(Emitters(store)) =
               Len(hs.prior.emitters) - (IF hs.op = "removeEmitter" THEN 1 ELSE 0)
        /\ \A k \in Rows(store) :
               /\ Emitters(store)[k + 1] = hs.prior.emitters[Origin(k) + 1]
               /\ k \in store.ui.hiddenEmitterIndices
                      <=> Origin(k) \in hs.prior.hiddenEmitterIndices
        /\ store.ui.hiddenEmitterIndices \subseteq Rows(store)

\* the first of three emitters was dragged to the end past a hidden one
C25_Witness ==
    /\ hs.op = "reorderEmitters"
    /\ hs.args = <<0, 2>>
    /\ hs.prior.hiddenEmitterIndices = {1}
    /\ store.ui.hiddenEmitterIndices = {0}
    /\ Emitters(store)[1] # Emitters(store)[3]

\* the index after duplicateEmitter(index) of the emitter that was at j
DuplicatedPlace(j, index) == IF j <= index THEN j ELSE j + 1

\* C27: after duplicateEmitter(i) with i in range the list is one longer,
\* holds a copy of emitter i at i + 1 and the previous emitters in their
\* order around it, and every previous emitter is hidden exactly if it was
\* hidden before
C27_DuplicateKeepsVisibility ==
    hs.op = "duplicateEmitter" =>
        /\ Len(Emitters(store)) = Len(hs.prior.emitters) + 1
        /\ Emitters(store)[hs.args[1] + 2] = hs.prior.emitters[hs.args[1] + 1]
        /\ \A j \in 0..(Len(hs.prior.emitters) - 1) :
               /\ Emitters(store)[DuplicatedPlace(j, hs.args[1]) + 1]
                      = hs.prior.emitters[j + 1]
               /\ DuplicatedPlace(j, hs.args[1]) \in store.ui.hiddenEmitterIndices
                      <=> j \in hs.prior.hiddenEmitterIndices

\* C29: in every state reached through addEmitter, removeEmitter,
\* duplicateEmitter, reorderEmitters, selectEmitter, pushHistory, undo,
\* redo, loadConfig and resetToDefault with indices in range,
\* selectedEmitterIndex is null or the index of an emitter of the list
C29_SelectionInRange ==
    \/ store.ui.selectedEmitterIndex = NULL
    \/ store.ui.selectedEmitterIndex \in Rows(store)

\* an undo made from a shorter list brought back two emitters with the
\* second one selected
C29_Witness ==
    /\ store.historyIndex = -1
    /\ Len(store.history) = 2
    /\ Len(EmittersOf(store.history[2].config)) < 2
    /\ store.history[2].label = "current"
    /\ Len(Emitters(store)) = 2
    /\ store.ui.selectedEmitterIndex = 1

\* ------------------------------------------------------------------------
\* Properties of the preview rebuild
\* ------------------------------------------------------------------------

\* every assignment of systemRef was made by the last run of the effect:
\* no run that a later one superseded installed its system
NoStaleInstall == \A i \in pv.installs : i[1] = i[2]

\* at most one debounce timeout is pending
OneTimer == Cardinality(pv.timers) <= 1

\* the system systemRef holds was built from the config of the last run of
\* the effect
SystemOfLastEffect == pv.systemRef # 0 => pv.systemRef = pv.effect

\* the system systemRef holds was built from the config of the last run of
\* the effect whose timeout has expired
SystemOfLastFired == pv.systemRef # 0 => pv.systemRef = pv.fired

\* C22 as stated: no superseded rebuild installs its system, the system in
\* systemRef is built from the config of the last run of the rebuild
\* effect, and at most one rebuild timer is pending
C22_StaleNeverWins == NoStaleInstall /\ SystemOfLastEffect /\ OneTimer

\* C22, amended: no superseded rebuild installs its system, the system in
\* systemRef is built from the config of the last run of the rebuild effect
\* whose timer has expired, and at most one rebuild timer is pending
C22_StaleNeverWinsOnceFired == NoStaleInstall /\ SystemOfLastFired /\ OneTimer

\* a rebuild was superseded while it awaited its system and returned
\* without installing it, and the next rebuild installed its own
C22_Witness ==
    /\ pv.effect = 3
    /\ pv.systemRef = 3
    /\ pv.pc[2] = "done"
    /\ pv.rendererRef = 3
    /\ <<3, 3>> \in pv.installs
    /\ pv.fired = 3

\* ------------------------------------------------------------------------
\* Properties of the document-replacing actions
\* ------------------------------------------------------------------------

ReplacingHandlers == {"handleNew", "handleImport", "handleLoad"}

\* C28: a step of New, Import or Load example taken while
\* ui.hasUnsavedChanges is true calls resetToDefault or loadConfig only
\* after confirm()
C28_ConfirmBeforeReplace ==
    [][(/\ store.ui.hasUnsavedChanges
        /\ handler'.name \in ReplacingHandlers
        /\ \/ InCalls(handler', "resetToDefault")
           \/ InCalls(handler', "loadConfig")) =>
           \/ CalledBefore(handler', "confirm", "resetToDefault")
           \/ CalledBefore(handler', "confirm", "loadConfig")]_vars

\* ------------------------------------------------------------------------
\* Properties of export followed by import
\* ------------------------------------------------------------------------

\* the position and the absolute coordinates of an emitter
Coordinates(emitter) ==
    <<Get(emitter, "position"), Get(emitter, "start"), Get(emitter, "end"),
      Get(emitter, "path"), Get(emitter, "points")>>

\* C26: after the store's document was exported and the exported text
\* imported again with no resize in between, every emitter has the position
\* and the absolute coordinates it had before the export
C26_ExportImportStable ==
    rt.reimported =>
        /\ Len(Emitters(store)) = Len(rt.emitters)
        /\ \A i \in 1..Len(rt.emitters) :
               Coordinates(Emitters(store)[i]) = Coordinates(rt.emitters[i])

\* C26 on the authoring canvas only
RoundTripStableAtAuthoringSize ==
    /\ store.ui.canvasWidth = DEFAULT_CANVAS_WIDTH
    /\ store.ui.canvasHeight = DEFAULT_CANVAS_HEIGHT
    => C26_ExportImportStable

\* ------------------------------------------------------------------------
\* Properties of uploads
\* ------------------------------------------------------------------------

\* the two upload checks
PassesUploadChecks(file) ==
    /\ startsWith(file.type, <<"i", "m", "a", "g", "e", "/">>)
    /\ file.size <= MaxTextureBytes

\* C30: every texture an upload hands to addTexture, as an individual file
\* or as a frame of a detected sequence, comes from a file whose type
\* starts with image/ and whose size is at most 5 MB
C30_UploadsChecked ==
    up.stage = "done" =>
        \A i \in 1..Len(up.added) : PassesUploadChecks(up.added[i])

\* C30 for the files that are not frames of a detected sequence
IndividualUploadsChecked ==
    up.stage = "done" =>
        LET detected == autoDetectSequences(up.files)
        IN \A i \in 1..Len(up.added) :
               (\E j \in 1..Len(detected.individualFiles) :
                    detected.individualFiles[j] = up.added[i])
               => PassesUploadChecks(up.added[i])

=============================================================================
